---------------------------- MODULE Spec2Model ----------------------------
(***************************************************************************)
(* A model of SuiForge: the admission layer of the three social listeners  *)
(* and the HTTP route (duplicate sets, the Telegram rate limiter), the     *)
(* request normalizer validateTokenParams, the deployment pipeline of      *)
(* processTokenDeployment with the replies of the listeners, and the Move  *)
(* modules anti_bot, liquidity_locker and fee_distributor.                 *)
(***************************************************************************)
EXTENDS Integers, Sequences, FiniteSets, TLC

VARIABLES
    now,                 \* Math.floor(Date.now() / 1000) as last read
    userActivityTracker, \* telegram.js: Map userId -> {count, firstRequest, isCoolingDown, cooldownUntil}
    rateLog,             \* history: the isRateLimited calls made (user, time, answer, entry left)
    processedTweets,     \* twitter.js: Set of tweet ids
    processedCasts,      \* farcaster.js: Set of cast hashes
    processedMessages,   \* telegram.js: Set of message ids
    calls,               \* history: number of handler invocations so far
    passed,              \* history: (source, id) -> calls that got past the duplicate check
    skippedDup,          \* history: (source, id) -> calls that returned 'Already processed'
    inflight,            \* handler calls suspended at an await
    lastReply,           \* history: <<>>, or <<the result of the last returned processTokenDeployment call and the reply made>>
    deployments,         \* history: the processTokenDeployment calls started, with the gates each passed
    parsed,              \* the fields handed to validateTokenParams
    validated,           \* <<>>, or <<the result of the last validateTokenParams call>>
    dpc,                 \* processTokenDeployment: the await it is suspended at
    steps,               \* history: the collaborator calls processTokenDeployment has made, in order
    result,              \* <<>>, or <<the result processTokenDeployment returned>>
    outcomes,            \* history: what each collaborator call came back with, in order
    tokenMetadata,       \* <<>>, or <<the tokenMetadata object of processTokenDeployment>>
    tokenId,             \* deployToken: "none" before extractTokenIdFromEvents, then its value
    protection,          \* anti_bot: <<>>, or <<the shared TokenProtection object>>
    chainTime,           \* the Clock object, in ticks of half a second
    enabledManually,     \* history: enable_trading has been executed on the object
    lastTx,              \* history: <<>>, or <<the last transaction: its call and how it ended>>
    buyHistory,          \* history: buyer -> the passing check_can_buy calls, summed
    created,             \* history: the TokenProtection objects shared for the token_id
    locker,              \* liquidity_locker: the shared LiquidityLocker object
    lockLog,             \* history: lock id -> the lock as lock_liquidity stored it
    transfers,           \* history: the coins transferred out of the escrow
    lastLockTx,          \* history: <<>>, or <<the last transaction on the locker: its call and how it ended>>
    distributor,         \* fee_distributor: the shared FeeDistributor object
    configs,             \* fee_distributor: token_id -> the shared TokenFeeConfig object followed
    lastFeeTx,           \* history: <<>>, or <<the last transaction on the fee objects: its call, how it ended, what it paid>>
    lastTweetId,         \* twitter.js: <<>> for null, or <<the id the next search is made since>>
    pollLog              \* history: the pollTwitterMentions runs, in order

rateVars == <<now, userActivityTracker, rateLog>>
listenerVars == <<processedTweets, processedCasts, processedMessages,
                  calls, passed, skippedDup, inflight, deployments, lastReply>>
normVars == <<parsed, validated>>
deployVars == <<dpc, steps, result, outcomes, tokenMetadata, tokenId>>
antiBotVars == <<protection, enabledManually, lastTx, buyHistory, created>>
lockerVars == <<locker, lockLog, transfers, lastLockTx>>
feeVars == <<distributor, configs, lastFeeTx>>
pollVars == <<lastTweetId, pollLog>>
chainVars == <<antiBotVars, chainTime, lockerVars, feeVars, pollVars>>
vars == <<now, userActivityTracker, rateLog, processedTweets, processedCasts,
          processedMessages, calls, passed, skippedDup, inflight, deployments, lastReply,
          parsed, validated, dpc, steps, result, outcomes, tokenMetadata,
          tokenId, protection, chainTime, enabledManually, lastTx, buyHistory,
          created, locker, lockLog, transfers, lastLockTx, distributor, configs,
          lastFeeTx, lastTweetId, pollLog>>

-----------------------------------------------------------------------------
(* Bounds of the model *)

MaxRateCalls == 6      \* isRateLimited calls in one behaviour of SpecRate
MaxCalls == 4          \* handler invocations in one behaviour of Spec
MaxStrLen == 2         \* length of the freely chosen symbol and name strings
MaxTxs == 4            \* transactions on the TokenProtection in one behaviour of SpecAntiBot
MaxLockTxs == 4        \* transactions on the LiquidityLocker in one behaviour of SpecLocker
MaxLocks == 2          \* locks made in one behaviour of SpecLocker
MaxFeeTxs == 5         \* transactions on the fee objects in one behaviour of SpecFees

Users == {"u1", "u2"}

-----------------------------------------------------------------------------
(* telegram.js: RATE_LIMIT *)

maxRequests == 3
timeWindow == 3600
cooldown == 86400

\* Seconds that may pass between two reads of the clock.
Elapsed == {0, timeWindow - 1, cooldown}

\* Seconds between two deliveries to the Telegram handler: none, or a whole cooldown
MessageElapsed == {0, cooldown}

SetEntry(tracker, userId, entry) ==
    [u \in DOMAIN tracker \cup {userId} |-> IF u = userId THEN entry ELSE tracker[u]]

\* A cooldown branch that restarts the cooldown on every rejected call
CoolingDownBranch_Extends(tracker, userId, t) ==
    LET userData == tracker[userId] IN
    IF t < userData.cooldownUntil
    THEN [limited |-> TRUE,
          tracker |-> SetEntry(tracker, userId,
                        [userData EXCEPT !.cooldownUntil = t + cooldown])]
    ELSE [limited |-> FALSE,
          tracker |-> SetEntry(tracker, userId,
                        [userData EXCEPT !.count = 1, !.firstRequest = t,
                                         !.isCoolingDown = FALSE])]

\* telegram.js isRateLimited, the cooldown branch (lines 43-55)
CoolingDownBranch(tracker, userId, t) ==
    LET userData == tracker[userId] IN
    IF t < userData.cooldownUntil
    THEN [limited |-> TRUE, tracker |-> tracker]
    ELSE [limited |-> FALSE,
          tracker |-> SetEntry(tracker, userId,
                        [userData EXCEPT !.count = 1, !.firstRequest = t,
                                         !.isCoolingDown = FALSE])]

\* A window branch that compares the count with > instead of >=
WindowBranch_OffByOne(tracker, userId, t) ==
    LET userData == tracker[userId] IN
    IF t - userData.firstRequest < timeWindow
    THEN IF userData.count > maxRequests
         THEN [limited |-> TRUE,
               tracker |-> SetEntry(tracker, userId,
                             [userData EXCEPT !.isCoolingDown = TRUE,
                                              !.cooldownUntil = t + cooldown])]
         ELSE [limited |-> FALSE,
               tracker |-> SetEntry(tracker, userId,
                             [userData EXCEPT !.count = userData.count + 1])]
    ELSE [limited |-> FALSE,
          tracker |-> SetEntry(tracker, userId,
                        [userData EXCEPT !.count = 1, !.firstRequest = t])]

\* telegram.js isRateLimited, the window branch (lines 57-78)
WindowBranch(tracker, userId, t) ==
    LET userData == tracker[userId] IN
    IF t - userData.firstRequest < timeWindow
    THEN IF userData.count >= maxRequests
         THEN [limited |-> TRUE,
               tracker |-> SetEntry(tracker, userId,
                             [userData EXCEPT !.isCoolingDown = TRUE,
                                              !.cooldownUntil = t + cooldown])]
         ELSE [limited |-> FALSE,
               tracker |-> SetEntry(tracker, userId,
                             [userData EXCEPT !.count = userData.count + 1])]
    ELSE [limited |-> FALSE,
          tracker |-> SetEntry(tracker, userId,
                        [userData EXCEPT !.count = 1, !.firstRequest = t])]

\* telegram.js isRateLimited(userId) called when the clock reads t
isRateLimited(tracker, userId, t) ==
    IF userId \notin DOMAIN tracker
    THEN [limited |-> FALSE,
          tracker |-> SetEntry(tracker, userId,
                        [count |-> 1, firstRequest |-> t,
                         isCoolingDown |-> FALSE, cooldownUntil |-> 0])]
    ELSE IF tracker[userId].isCoolingDown
         THEN CoolingDownBranch(tracker, userId, t)
         ELSE WindowBranch(tracker, userId, t)

-----------------------------------------------------------------------------
(* The rate limiter on its own: isRateLimited called for any user at any    *)
(* non-decreasing clock reading, as processMessage calls it.                *)

NoTracker == [u \in {} |-> 0]

RateLimitCall(userId, d) ==
    /\ Len(rateLog) < MaxRateCalls
    /\ LET t == now + d
           r == isRateLimited(userActivityTracker, userId, t)
       IN /\ now' = t
          /\ userActivityTracker' = r.tracker
          /\ rateLog' = Append(rateLog,
                [userId |-> userId, t |-> t, limited |-> r.limited,
                 count |-> r.tracker[userId].count,
                 firstRequest |-> r.tracker[userId].firstRequest])
    /\ UNCHANGED listenerVars
    /\ UNCHANGED normVars
    /\ UNCHANGED deployVars
    /\ UNCHANGED chainVars

-----------------------------------------------------------------------------
(* The listeners: twitter.js processTweet, farcaster.js processCast,        *)
(* telegram.js processMessage, and routes/token.js POST /process-message.   *)

TweetIds == {1, 2}
CastHashes == {1, 2}
MessageIds == 1..(maxRequests + 1)
Listeners == {"twitter", "farcaster", "telegram"}
EventKeys == ({"twitter"} \X TweetIds) \cup ({"farcaster"} \X CastHashes)
                \cup ({"telegram"} \X MessageIds)

\* The texts a handler tells apart: cleanText.length < 5 ("short"),
\* messageText.startsWith('/') ("command"), anything else ("request")
Texts == {"request", "short", "command"}

\* The events the platforms deliver
Tweets == {[id |-> 1, author_id |-> "u1", text |-> "request"],
           [id |-> 2, author_id |-> "u2", text |-> "short"]}
Casts == {[hash |-> 1, username |-> "u2", text |-> "request"],
          [hash |-> 2, username |-> "u1", text |-> "short"]}
Updates == {[message_id |-> i, from |-> "u1",
             text |-> CASE i = 2 -> "command" [] i = 3 -> "short" [] OTHER -> "request"]
            : i \in MessageIds}
Requests == {[authorized |-> TRUE, complete |-> TRUE, userId |-> "u1"],
             [authorized |-> FALSE, complete |-> TRUE, userId |-> "u1"],
             [authorized |-> TRUE, complete |-> FALSE, userId |-> "u2"]}

\* Set.prototype.has on a processed set
AlreadyProcessed(processed, id) == id \in processed

\* An add that is lost
MarkProcessed_Lost(processed, id) == processed

\* Set.prototype.add on a processed set
MarkProcessed(processed, id) == processed \cup {id}

Bump(counter, source, id) ==
    [counter EXCEPT ![<<source, id>>] = @ + 1]

\* Tells apart the calls made for one (source, id): the n-th of them
Occurrence(source, id) ==
    IF source = "http"
    THEN Cardinality({x \in deployments : x.source = "http"}) + 1
    ELSE passed[<<source, id>>] + 1

\* The call of processTokenDeployment(text, source, userId) by a handler
StartDeployment(source, id, actor, dupChecked, rateChecked) ==
    /\ deployments' = deployments \cup
            {[source |-> source, id |-> id, call |-> Occurrence(source, id),
              actor |-> actor, dupChecked |-> dupChecked, rateChecked |-> rateChecked]}
    /\ inflight' = inflight \cup
            {[source |-> source, id |-> id, call |-> Occurrence(source, id),
              actor |-> actor, at |-> "deploying"]}

\* twitter.js processTweet(tweet), up to its first await
ProcessTweet(tweet) ==
    /\ calls < MaxCalls
    /\ calls' = calls + 1
    /\ IF AlreadyProcessed(processedTweets, tweet.id)
       THEN /\ skippedDup' = Bump(skippedDup, "twitter", tweet.id)
            /\ UNCHANGED <<processedTweets, passed, inflight, deployments>>
       ELSE /\ processedTweets' = MarkProcessed(processedTweets, tweet.id)
            /\ passed' = Bump(passed, "twitter", tweet.id)
            /\ UNCHANGED skippedDup
            /\ IF tweet.text = "short"
               THEN UNCHANGED <<inflight, deployments>>
               ELSE StartDeployment("twitter", tweet.id, tweet.author_id, TRUE, FALSE)
    /\ UNCHANGED <<processedCasts, processedMessages, lastReply>>
    /\ UNCHANGED rateVars
    /\ UNCHANGED normVars
    /\ UNCHANGED deployVars
    /\ UNCHANGED chainVars

\* The mentions search of twitter.js, polled by pollTwitterMentions
MaxPolls == 3

\* The batches twitterClient.v2.search can answer with: tweets newer than
\* since_id when one was sent, at most two of them, in any order
NewerThan(since) ==
    {t \in Tweets : since = <<>> \/ t.id > since[1]}

Batches(since) ==
    {<<>>} \cup {<<t>> : t \in NewerThan(since)}
           \cup {b \in NewerThan(since) \X NewerThan(since) : b[1] # b[2]}

\* What the awaited search comes back with: a rejection, a response without
\* a data field, or a response whose data is a batch
SearchResponses(since) ==
    {[kind |-> "rejected", data |-> <<>>], [kind |-> "nodata", data |-> <<>>]}
        \cup {[kind |-> "ok", data |-> b] : b \in Batches(since)}

\* BigInt(id): a value of type bigint
BigInt(id) == [type |-> "bigint", value |-> id]

\* ToNumber of ECMAScript: a TypeError for a bigint value
ToNumber(v) ==
    IF v.type = "bigint" THEN [threw |-> TRUE, value |-> 0]
                         ELSE [threw |-> FALSE, value |-> v.value]

\* Math.max(...args): every argument is coerced with ToNumber first
MathMax(args) ==
    LET ns == [i \in DOMAIN args |-> ToNumber(args[i])]
    IN  IF \E i \in DOMAIN ns : ns[i].threw
        THEN [threw |-> TRUE, value |-> 0]
        ELSE [threw |-> FALSE,
              value |-> CHOOSE m \in {ns[i].value : i \in DOMAIN ns} :
                            \A i \in DOMAIN ns : ns[i].value <= m]

\* getRecentMentions(): what it returns and what it leaves in lastTweetId,
\* for the search made since lastTweetId and the response it got
getRecentMentions(since, response) ==
    IF response.kind = "rejected"
    THEN [mentions |-> <<>>, lastTweetId |-> since]
    ELSE IF response.kind = "nodata" \/ Len(response.data) = 0
    THEN [mentions |-> <<>>, lastTweetId |-> since]
    ELSE LET tweetIds == [i \in DOMAIN response.data |-> response.data[i].id]
             max == MathMax([i \in DOMAIN tweetIds |-> BigInt(tweetIds[i])])
         IN  IF max.threw
             THEN [mentions |-> <<>>, lastTweetId |-> since]
             ELSE [mentions |-> response.data, lastTweetId |-> <<max.value>>]

\* pollTwitterMentions(): the search, and the loop that hands each mention
\* returned to processTweet, which adds its id to processedTweets
PollTwitterMentions(response) ==
    /\ Len(pollLog) < MaxPolls
    /\ LET r == getRecentMentions(lastTweetId, response)
       IN  /\ lastTweetId' = r.lastTweetId
           /\ pollLog' = Append(pollLog,
                    [since_id |-> lastTweetId, response |-> response,
                     mentions |-> r.mentions, handed |-> r.mentions,
                     lastTweetId |-> r.lastTweetId])
           /\ processedTweets' = processedTweets
                    \cup {r.mentions[i].id : i \in DOMAIN r.mentions}
    /\ UNCHANGED <<processedCasts, processedMessages, calls, passed, skippedDup,
                   inflight, deployments, lastReply>>
    /\ UNCHANGED rateVars
    /\ UNCHANGED normVars
    /\ UNCHANGED deployVars
    /\ UNCHANGED <<antiBotVars, chainTime, lockerVars, feeVars>>


\* farcaster.js processCast(cast), up to its first await
ProcessCast(cast) ==
    /\ calls < MaxCalls
    /\ calls' = calls + 1
    /\ IF AlreadyProcessed(processedCasts, cast.hash)
       THEN /\ skippedDup' = Bump(skippedDup, "farcaster", cast.hash)
            /\ UNCHANGED <<processedCasts, passed, inflight, deployments>>
       ELSE /\ processedCasts' = MarkProcessed(processedCasts, cast.hash)
            /\ passed' = Bump(passed, "farcaster", cast.hash)
            /\ UNCHANGED skippedDup
            /\ IF cast.text = "short"
               THEN UNCHANGED <<inflight, deployments>>
               ELSE StartDeployment("farcaster", cast.hash, cast.username, TRUE, FALSE)
    /\ UNCHANGED <<processedTweets, processedMessages, lastReply>>
    /\ UNCHANGED rateVars
    /\ UNCHANGED normVars
    /\ UNCHANGED deployVars
    /\ UNCHANGED chainVars

\* telegram.js processMessage(ctx), up to its first await; d is the time since
\* the clock was last read
ProcessMessage(ctx, d) ==
    /\ calls < MaxCalls
    /\ calls' = calls + 1
    /\ IF AlreadyProcessed(processedMessages, ctx.message_id)
       THEN /\ skippedDup' = Bump(skippedDup, "telegram", ctx.message_id)
            /\ UNCHANGED <<processedMessages, passed, inflight, deployments,
                           now, userActivityTracker>>
       ELSE LET t == now + d
                r == isRateLimited(userActivityTracker, ctx.from, t)
            IN /\ processedMessages' = MarkProcessed(processedMessages, ctx.message_id)
               /\ passed' = Bump(passed, "telegram", ctx.message_id)
               /\ now' = t
               /\ userActivityTracker' = r.tracker
               /\ UNCHANGED <<skippedDup, deployments>>
               /\ IF r.limited \/ ctx.text \in {"command", "short"}
                  THEN UNCHANGED inflight
                  ELSE inflight' = inflight \cup
                          {[source |-> "telegram", id |-> ctx.message_id,
                            call |-> Occurrence("telegram", ctx.message_id),
                            actor |-> ctx.from, at |-> "typing"]}
    /\ UNCHANGED <<processedTweets, processedCasts, rateLog, lastReply>>
    /\ UNCHANGED normVars
    /\ UNCHANGED deployVars
    /\ UNCHANGED chainVars

\* telegram.js processMessage, lines 145-149: sendChatAction resolves and
\* processTokenDeployment is called, or it rejects and the handler returns
\* { error } from the catch of line 164
SendChatActionReturns(c, ok) ==
    /\ c \in inflight
    /\ c.at = "typing"
    /\ IF ok
       THEN /\ deployments' = deployments \cup
                    {[source |-> c.source, id |-> c.id, call |-> c.call,
                      actor |-> c.actor, dupChecked |-> TRUE, rateChecked |-> TRUE]}
            /\ inflight' = (inflight \ {c}) \cup {[c EXCEPT !.at = "deploying"]}
       ELSE /\ inflight' = inflight \ {c}
            /\ UNCHANGED deployments
    /\ UNCHANGED <<processedTweets, processedCasts, processedMessages,
                   calls, passed, skippedDup, lastReply>>
    /\ UNCHANGED rateVars
    /\ UNCHANGED normVars
    /\ UNCHANGED deployVars
    /\ UNCHANGED chainVars

\* routes/token.js POST /process-message, up to its first await
ProcessMessageRoute(req) ==
    /\ calls < MaxCalls
    /\ calls' = calls + 1
    /\ IF req.authorized /\ req.complete
       THEN StartDeployment("http", 0, req.userId, FALSE, FALSE)
       ELSE UNCHANGED <<inflight, deployments>>
    /\ UNCHANGED <<processedTweets, processedCasts, processedMessages,
                   passed, skippedDup, lastReply>>
    /\ UNCHANGED rateVars
    /\ UNCHANGED normVars
    /\ UNCHANGED deployVars
    /\ UNCHANGED chainVars

\* deployer.js lines 243-324: the results processTokenDeployment resolves to
DeploymentResults ==
    {[success |-> TRUE, reason |-> ""],
     [success |-> FALSE, reason |-> "Not a valid token request or low confidence"],
     [success |-> FALSE, reason |-> "Missing token symbol"],
     [success |-> FALSE, reason |-> "Deployment failed"],
     [success |-> FALSE, reason |-> "Processing error"]}

\* deploymentResult.reason.includes('Deployment failed')
IncludesDeploymentFailed(deploymentResult) ==
    deploymentResult.reason = "Deployment failed"

\* The reply a handler composes for a result: "success" (replyWithSuccess),
\* "failure" (replyWithFailure, which quotes the reason), "unrecognized"
\* (the fixed text of telegram.js line 159, chosen because the result has no
\* isTokenRequest field), "json" (res.json of the whole result) or "none"
ReplyFor(source, deploymentResult) ==
    IF source = "http" THEN "json"
    ELSE IF deploymentResult.success THEN "success"
    ELSE IF IncludesDeploymentFailed(deploymentResult) THEN "failure"
    ELSE IF source = "telegram" THEN "unrecognized"
    ELSE "none"

\* processTokenDeployment resolves and the handler runs to its end: it
\* composes its reply and sends it (a rejected send is caught and logged,
\* and leaves the same state)
DeploymentReturns(c, deploymentResult) ==
    /\ c \in inflight
    /\ c.at = "deploying"
    /\ inflight' = inflight \ {c}
    /\ LET reply == ReplyFor(c.source, deploymentResult) IN
       lastReply' = <<[source |-> c.source,
                       success |-> deploymentResult.success, reason |-> deploymentResult.reason,
                       reply |-> reply]>>
    /\ UNCHANGED <<processedTweets, processedCasts, processedMessages,
                   calls, passed, skippedDup, deployments>>
    /\ UNCHANGED rateVars
    /\ UNCHANGED normVars
    /\ UNCHANGED deployVars
    /\ UNCHANGED chainVars

-----------------------------------------------------------------------------
(* text_parser.js: validateTokenParams.  A string is a sequence of          *)
(* characters; NULL stands for null and undefined.                          *)

NULL == <<"null">>

\* JavaScript truthiness of a string-or-null field
Truthy(s) == s # NULL /\ s # <<>>

\* "sz" stands for the one character U+00DF, whose upper case is "SS"
UpperLetters == {"A", "B", "C", "D", "E", "F", "S"}
LowerLetters == {"a", "b"}
Digits == {"7"}

\* \w of a JavaScript regular expression: [A-Za-z0-9_]
IsWordChar(c) == c \in UpperLetters \cup LowerLetters \cup Digits \cup {"_"}

\* \s of a JavaScript regular expression
IsSpaceChar(c) == c = " "

\* String.prototype.toUpperCase on one character
ToUpperChar(c) ==
    CASE c = "a" -> <<"A">>
      [] c = "b" -> <<"B">>
      [] c = "sz" -> <<"S", "S">>
      [] OTHER -> <<c>>

RECURSIVE toUpperCase(_)
toUpperCase(s) ==
    IF s = <<>> THEN <<>> ELSE ToUpperChar(Head(s)) \o toUpperCase(Tail(s))

RECURSIVE TrimStart(_)
TrimStart(s) ==
    IF s # <<>> /\ IsSpaceChar(Head(s)) THEN TrimStart(Tail(s)) ELSE s

RECURSIVE TrimEnd(_)
TrimEnd(s) ==
    IF s # <<>> /\ IsSpaceChar(s[Len(s)]) THEN TrimEnd(SubSeq(s, 1, Len(s) - 1)) ELSE s

\* String.prototype.trim
trim(s) == TrimEnd(TrimStart(s))

\* .replace(/[^\w]/g, '')
StripNonWord(s) == SelectSeq(s, IsWordChar)

\* .replace(/[^\w\s]/g, '')
StripSpecial(s) ==
    LET Kept(c) == IsWordChar(c) \/ IsSpaceChar(c) IN SelectSeq(s, Kept)

\* text_parser.js line 73 and deployer.js line 241
ConfidenceThreshold == 70
\* text_parser.js line 108
MinSymbolLength == 2
MaxSymbolLength == 5

\* text_parser.js line 133: defaultEmojis
defaultEmojis == <<<<"rocket">>, <<"moon">>, <<"gem">>, <<"fire">>,
                   <<"gorilla">>, <<"dog">>, <<"cat">>, <<"robot">>>>

\* Math.floor(Math.random() * defaultEmojis.length)
RandomIndexes == 0..(Len(defaultEmojis) - 1)

\* A threshold test that also turns away a confidence equal to the threshold
NotATokenRequest_Inclusive(tokenParams) ==
    ~tokenParams.isTokenRequest \/ tokenParams.confidence <= ConfidenceThreshold

\* deployer.js line 241 and text_parser.js line 73: the same test
NotATokenRequest(tokenParams) ==
    ~tokenParams.isTokenRequest \/ tokenParams.confidence < ConfidenceThreshold

\* text_parser.js lines 90-92
NormalizeName(name) == StripSpecial(trim(name))

\* text_parser.js lines 102-105
NormalizeSymbol(symbol) == StripNonWord(toUpperCase(trim(symbol)))

\* A length test that rejects two-character symbols
SymbolLengthOk_Strict(symbol) ==
    ~(Len(symbol) <= MinSymbolLength \/ Len(symbol) > MaxSymbolLength)

\* text_parser.js line 108, negated
SymbolLengthOk(symbol) ==
    ~(Len(symbol) < MinSymbolLength \/ Len(symbol) > MaxSymbolLength)

Rejected(reason, name, symbol) ==
    [isValid |-> FALSE, reason |-> reason, tokenName |-> name,
     tokenSymbol |-> symbol, memeTheme |-> NULL, emoji |-> NULL]

\* text_parser.js validateTokenParams(tokenParams); random is the value of
\* Math.floor(Math.random() * 8) should line 134 be reached
validateTokenParams(tokenParams, random) ==
    IF NotATokenRequest(tokenParams)
    THEN Rejected("Not a token request or low confidence", NULL, NULL)
    ELSE IF ~Truthy(tokenParams.tokenName)
    THEN Rejected("Missing token name", NULL, NULL)
    ELSE LET name == NormalizeName(tokenParams.tokenName) IN
    IF ~Truthy(tokenParams.tokenSymbol)
    THEN Rejected("Missing token symbol", name, NULL)
    ELSE LET symbol == NormalizeSymbol(tokenParams.tokenSymbol) IN
    IF ~SymbolLengthOk(symbol)
    THEN Rejected("Token symbol must be 2-5 characters", name, symbol)
    ELSE [isValid |-> TRUE,
          reason |-> "",
          tokenName |-> name,
          tokenSymbol |-> symbol,
          memeTheme |-> IF Truthy(tokenParams.memeTheme)
                        THEN trim(tokenParams.memeTheme)
                        ELSE <<"Generic meme token">>,
          emoji |-> IF Truthy(tokenParams.emoji)
                    THEN tokenParams.emoji
                    ELSE defaultEmojis[random + 1]]

(* The inputs validateTokenParams is tried on *)

Alphabet == {"a", "B", "7", "_", "$", " ", "sz"}
Strings == UNION {[1..k -> Alphabet] : k \in 0..MaxStrLen}
\* the symbols of the specification's examples, and strings around the
\* upper length limit
CaseSymbols == {<<"A", "B">>, <<"A", "B", "C", "D", "E">>, <<"A">>,
                <<"A", "B", "C", "D", "E", "F">>, <<"a", "b", "$">>}
Symbols == Strings \cup CaseSymbols \cup {s \o <<"C", "D", "E", "F">> : s \in Strings}
Confidences == {0, ConfidenceThreshold - 1, ConfidenceThreshold, 85}
Typical == [isTokenRequest |-> TRUE, confidence |-> 85,
            tokenName |-> <<"C", "a", "b">>, tokenSymbol |-> <<"C", "A", "B">>,
            memeTheme |-> <<" ", "a", " ">>, emoji |-> NULL]
ParsedFields ==
    [isTokenRequest : BOOLEAN, confidence : Confidences,
     tokenName : {NULL, <<>>, <<"C", "a", "b">>},
     tokenSymbol : {NULL, <<>>, <<"C", "A", "B">>, <<"A">>},
     memeTheme : {NULL, <<" ", "a", " ">>},
     emoji : {NULL, <<"unicorn">>}]
ParsedInputs ==
    ParsedFields
    \cup {[Typical EXCEPT !.tokenSymbol = s] : s \in Symbols}
    \cup {[Typical EXCEPT !.tokenName = n] : n \in Strings}

\* A caller evaluates validateTokenParams(parsed)
Validate(random) ==
    /\ validated' = <<validateTokenParams(parsed, random)>>
    /\ UNCHANGED parsed
    /\ UNCHANGED rateVars
    /\ UNCHANGED listenerVars
    /\ UNCHANGED deployVars
    /\ UNCHANGED chainVars

-----------------------------------------------------------------------------
(* deployer.js: processTokenDeployment, one invocation, one action for each *)
(* stretch of code between two awaits.                                      *)

\* text_parser.js lines 57-64: what parseTokenRequest returns when the
\* completion call or JSON.parse throws
ParseFailure == [isTokenRequest |-> FALSE, confidence |-> 0, tokenName |-> NULL,
                 tokenSymbol |-> NULL, memeTheme |-> NULL, emoji |-> NULL]

\* What parseTokenRequest may return
ParseResults == ParsedFields \cup {ParseFailure}

Failure(reason) == <<[success |-> FALSE, reason |-> reason]>>

\* The five orchestration steps, in the order of the code
OrchestrationSteps == <<"create_token", "anti_bot", "fee_config", "liquidity", "lock">>

\* Every collaborator call of one invocation, in the order of the code
StepOrder == <<"parse", "metadata", "imagery">> \o OrchestrationSteps

\* A collaborator that is called again right after its call
Call_Twice(step) == Append(Append(steps, step), step)

\* The call of a collaborator
Call(step) == Append(steps, step)

\* A collaborator call has resolved: what it came back with
Resolved(step, outcome) == Append(outcomes, [step |-> step, outcome |-> outcome])

\* text_parser.js generateTokenMetadata: "generated" is a completion with all
\* three fields, "incomplete" a completion whose JSON has no shortDescription,
\* "failed" a rejected call or a JSON.parse that throws
ContentOutcomes == {"generated", "incomplete", "failed"}

\* text_parser.js lines 181-192: the description of the returned metadata
ShortDescription(content) ==
    CASE content = "generated" -> "generated"
      [] content = "incomplete" -> "undefined"
      [] content = "failed" -> "template"

\* image_gen.js generateTokenImagery: staticImage is the path written by
\* generateTokenImage ("dalle"), the one written by generateFallbackImage
\* ("fallback") or null; animatedGif is a path ("gif") or null, and null
\* whenever there is no static image (line 131)
Imagery == {i \in [staticImage : {"dalle", "fallback", "null"}, animatedGif : {"gif", "null"}] :
                i.staticImage = "null" => i.animatedGif = "null"}

\* deployer.js lines 271-273
ImageUrl(tokenImagery) ==
    IF tokenImagery.staticImage # "null" THEN "static" ELSE "default"

\* deployer.js lines 275-277
AnimatedUrl(tokenImagery) ==
    IF tokenImagery.animatedGif # "null" THEN "animated" ELSE "null"

\* What signAndExecuteTransactionBlock of create_token may come back with
NoEvent == [type |-> "other", parsedJson |-> <<>>]
TokenCreated(json) == [type |-> "::token_factory::TokenCreated", parsedJson |-> json]
TxResults ==
    {[rejected |-> TRUE, hasEvents |-> FALSE, events |-> <<>>],
     [rejected |-> FALSE, hasEvents |-> FALSE, events |-> <<>>],
     [rejected |-> FALSE, hasEvents |-> TRUE, events |-> <<>>],
     [rejected |-> FALSE, hasEvents |-> TRUE, events |-> <<NoEvent>>],
     [rejected |-> FALSE, hasEvents |-> TRUE,
      events |-> <<TokenCreated(<<>>)>>],
     [rejected |-> FALSE, hasEvents |-> TRUE,
      events |-> <<TokenCreated(<<[token_id |-> "undefined"]>>)>>],
     [rejected |-> FALSE, hasEvents |-> TRUE,
      events |-> <<TokenCreated(<<[token_id |-> "0xT"]>>)>>],
     [rejected |-> FALSE, hasEvents |-> TRUE,
      events |-> <<NoEvent, TokenCreated(<<[token_id |-> "0xT"]>>)>>]}

\* Array.prototype.find for the TokenCreated event: <<>> or <<the event>>
RECURSIVE FindTokenCreated(_)
FindTokenCreated(events) ==
    IF events = <<>> THEN <<>>
    ELSE IF Head(events).type = "::token_factory::TokenCreated" THEN <<Head(events)>>
    ELSE FindTokenCreated(Tail(events))

\* deployer.js extractTokenIdFromEvents
extractTokenIdFromEvents(txResult) ==
    IF ~txResult.hasEvents \/ Len(txResult.events) = 0 THEN "null"
    ELSE LET tokenCreatedEvent == FindTokenCreated(txResult.events) IN
         IF tokenCreatedEvent = <<>> \/ tokenCreatedEvent[1].parsedJson = <<>> THEN "null"
         ELSE tokenCreatedEvent[1].parsedJson[1].token_id

\* A test that lets every extracted value through
NoTokenId_Never(id) == FALSE

\* deployer.js line 80: !tokenId
NoTokenId(id) == id \in {"null", "undefined"}

\* deployer.js lines 234-238: the call, up to await parseTokenRequest
Invoke ==
    /\ dpc = "idle"
    /\ dpc' = "parse"
    /\ steps' = Call("parse")
    /\ UNCHANGED <<result, outcomes, tokenMetadata, tokenId, parsed, validated>>
    /\ UNCHANGED rateVars
    /\ UNCHANGED listenerVars
    /\ UNCHANGED chainVars

\* deployer.js lines 238-265: parseTokenRequest resolves; the two checks;
\* the call of generateTokenMetadata. jsonNull: the completion was the JSON
\* text null, so that reading parsedRequest.isTokenRequest throws
ParseTokenRequestReturns(parsedRequest, random, jsonNull) ==
    /\ dpc = "parse"
    /\ outcomes' = Resolved("parse", IF jsonNull THEN "null" ELSE "parsed")
    /\ IF jsonNull
       THEN /\ result' = Failure("Processing error")
            /\ dpc' = "returned"
            /\ UNCHANGED <<parsed, validated, steps>>
       ELSE
       /\ parsed' = parsedRequest
       /\ IF NotATokenRequest(parsedRequest)
          THEN /\ result' = Failure("Not a valid token request or low confidence")
               /\ dpc' = "returned"
               /\ UNCHANGED <<validated, steps>>
          ELSE LET validatedParams == validateTokenParams(parsedRequest, random) IN
               /\ validated' = <<validatedParams>>
               /\ IF ~validatedParams.isValid
                  THEN /\ result' = Failure(validatedParams.reason)
                       /\ dpc' = "returned"
                       /\ UNCHANGED steps
                  ELSE /\ dpc' = "metadata"
                       /\ steps' = Call("metadata")
                       /\ UNCHANGED result
    /\ UNCHANGED <<tokenMetadata, tokenId>>
    /\ UNCHANGED rateVars
    /\ UNCHANGED listenerVars
    /\ UNCHANGED chainVars

\* deployer.js lines 265-268: generateTokenMetadata resolves (it catches its
\* own failures); the call of generateTokenImagery
GenerateTokenMetadataReturns(content) ==
    /\ dpc = "metadata"
    /\ outcomes' = Resolved("metadata", content)
    /\ tokenMetadata' = <<[shortDescription |-> ShortDescription(content),
                           imageUrl |-> "unset", animatedUrl |-> "unset"]>>
    /\ dpc' = "imagery"
    /\ steps' = Call("imagery")
    /\ UNCHANGED <<result, tokenId, parsed, validated>>
    /\ UNCHANGED rateVars
    /\ UNCHANGED listenerVars
    /\ UNCHANGED chainVars

\* deployer.js lines 268-280 and 37-73: generateTokenImagery resolves and the
\* URLs are set; deployToken creates its signer (which may throw), builds the
\* transaction (Buffer.from throws on an undefined description) and submits
\* create_token
GenerateTokenImageryReturns(tokenImagery, signerOk) ==
    /\ dpc = "imagery"
    /\ outcomes' = Resolved("imagery", tokenImagery.staticImage)
    /\ tokenMetadata' = <<[tokenMetadata[1] EXCEPT
                            !.imageUrl = ImageUrl(tokenImagery),
                            !.animatedUrl = AnimatedUrl(tokenImagery)]>>
    /\ IF signerOk /\ tokenMetadata[1].shortDescription # "undefined"
       THEN /\ dpc' = "create_token"
            /\ steps' = Call("create_token")
            /\ UNCHANGED result
       ELSE /\ dpc' = "returned"
            /\ result' = Failure("Deployment failed")
            /\ UNCHANGED steps
    /\ UNCHANGED <<tokenId, parsed, validated>>
    /\ UNCHANGED rateVars
    /\ UNCHANGED listenerVars
    /\ UNCHANGED chainVars

\* deployer.js lines 67-85: the create_token transaction resolves or rejects;
\* extractTokenIdFromEvents; the call of setupAntiBot
CreateTokenReturns(txResult) ==
    /\ dpc = "create_token"
    /\ IF txResult.rejected
       THEN /\ outcomes' = Resolved("create_token", "rejected")
            /\ dpc' = "returned"
            /\ result' = Failure("Deployment failed")
            /\ UNCHANGED <<steps, tokenId>>
       ELSE /\ outcomes' = Resolved("create_token", "ok")
            /\ tokenId' = extractTokenIdFromEvents(txResult)
            /\ IF NoTokenId(tokenId')
               THEN /\ dpc' = "returned"
                    /\ result' = Failure("Deployment failed")
                    /\ UNCHANGED steps
               ELSE /\ dpc' = "anti_bot"
                    /\ steps' = Call("anti_bot")
                    /\ UNCHANGED result
    /\ UNCHANGED <<tokenMetadata, parsed, validated>>
    /\ UNCHANGED rateVars
    /\ UNCHANGED listenerVars
    /\ UNCHANGED chainVars

\* deployer.js lines 85-88: setupAntiBot resolves (it catches its own
\* failures and its result is dropped); the call of setupFeeDistribution
SetupAntiBotReturns(ok) ==
    /\ dpc = "anti_bot"
    /\ outcomes' = Resolved("anti_bot", IF ok THEN "ok" ELSE "failed")
    /\ dpc' = "fee_config"
    /\ steps' = Call("fee_config")
    /\ UNCHANGED <<result, tokenMetadata, tokenId, parsed, validated>>
    /\ UNCHANGED rateVars
    /\ UNCHANGED listenerVars
    /\ UNCHANGED chainVars

\* deployer.js lines 88-96 and 280-296: setupFeeDistribution resolves (its
\* result is dropped), deployToken returns success; the call of
\* provideLiquidity
SetupFeeDistributionReturns(ok) ==
    /\ dpc = "fee_config"
    /\ outcomes' = Resolved("fee_config", IF ok THEN "ok" ELSE "failed")
    /\ dpc' = "liquidity"
    /\ steps' = Call("liquidity")
    /\ UNCHANGED <<result, tokenMetadata, tokenId, parsed, validated>>
    /\ UNCHANGED rateVars
    /\ UNCHANGED listenerVars
    /\ UNCHANGED chainVars

\* deployer.js lines 292-302: provideLiquidity resolves (it catches its own
\* failures); the call of lockLiquidity
ProvideLiquidityReturns(ok) ==
    /\ dpc = "liquidity"
    /\ outcomes' = Resolved("liquidity", IF ok THEN "ok" ELSE "failed")
    /\ dpc' = "lock"
    /\ steps' = Call("lock")
    /\ UNCHANGED <<result, tokenMetadata, tokenId, parsed, validated>>
    /\ UNCHANGED rateVars
    /\ UNCHANGED listenerVars
    /\ UNCHANGED chainVars

\* deployer.js lines 299-316: lockLiquidity resolves; the result
LockLiquidityReturns(ok) ==
    /\ dpc = "lock"
    /\ outcomes' = Resolved("lock", IF ok THEN "ok" ELSE "failed")
    /\ dpc' = "returned"
    /\ result' = <<[success |-> TRUE, reason |-> ""]>>
    /\ UNCHANGED <<steps, tokenMetadata, tokenId, parsed, validated>>
    /\ UNCHANGED rateVars
    /\ UNCHANGED listenerVars
    /\ UNCHANGED chainVars

-----------------------------------------------------------------------------
(* anti_bot.move: module suiforge::anti_bot.  One TokenProtection object is *)
(* followed from its creation; every transaction either commits or aborts,  *)
(* and an abort leaves the object as it was before the transaction.         *)
(* The Clock is read in ticks of half a second (timestamp_ms = 500 * ticks), *)
(* so that thirty days of it stay within the integers of the model checker. *)

Deployer == "deployer"
Addresses == {Deployer, "a"}

\* deployer.js setupAntiBot: the arguments it passes to create_protection
DeployedCooldownPeriod == 300
DeployedMaxBuyPercent == 500
DeployedEnableTimeDelay == 300
BasisPoints == 10000

\* The arguments transactions are made with
CooldownPeriods == {0, DeployedCooldownPeriod}
MaxBuyPercents == {DeployedMaxBuyPercent, 2 * DeployedMaxBuyPercent}
EnableTimeDelays == {0, DeployedEnableTimeDelay}
TotalSupplies == {1010, 40000}
Amounts == {50, 51}

\* The largest u64.  The model keeps 24 of the 64 bits, so that a product of
\* two of its numbers stays within the integers of the model checker; the
\* supply 40000 is one whose product with max_buy_percent does not fit.
MaxU64 == 16777215

\* Move arithmetic on u64 aborts the transaction when the result does not fit
Overflows(x) == x > MaxU64

\* Ticks the Clock may advance between two transactions: into the same second
\* or the next one, or to the last tick before a delay has passed
ClockSteps == {1, 2 * DeployedEnableTimeDelay - 1}

\* clock::timestamp_ms(clock) / 1000, the timestamp being 500 * ticks
Seconds(ticks) == ticks \div 2

\* anti_bot.move lines 220-223, vector::contains
is_whitelisted(p, address) ==
    \E i \in DOMAIN p.whitelist : p.whitelist[i] = address

\* vector::index_of: the first index holding the address, 0 when there is none
IndexOf(vec, address) ==
    IF \E i \in DOMAIN vec : vec[i] = address
    THEN CHOOSE i \in DOMAIN vec :
            vec[i] = address /\ \A j \in 1..(i - 1) : vec[j] # address
    ELSE 0

\* vector::remove
RemoveAt(vec, index) ==
    [i \in 1..(Len(vec) - 1) |-> IF i < index THEN vec[i] ELSE vec[i + 1]]

\* What a call does: it aborts with a code, or it returns a value and leaves
\* the object p
Abort(code) == [aborted |-> TRUE, code |-> code, ret |-> "none", p |-> <<>>]
Return(ret, p) == [aborted |-> FALSE, code |-> "none", ret |-> ret, p |-> <<p>>]

\* The check of the caller every owner-only function starts with
NotOwner_Never(p, sender) == FALSE

\* anti_bot.move lines 156, 178, 194, 213, 232, 248, 260:
\* assert!(protection.owner == sender, 0)
NotOwner(p, sender) == p.owner # sender

\* table::new: no buyer has a BuyInfo
NoBuyInfo == [b \in {} |-> [total_bought |-> 0, last_buy_time |-> 0]]

\* anti_bot.move lines 55-86: the object create_protection shares
NewProtection(sender, cooldown_period, max_buy_percent, enable_time_delay, current_time) ==
    [owner |-> sender,
     trading_enabled |-> FALSE,
     enable_time |-> current_time + enable_time_delay,
     cooldown_period |-> cooldown_period,
     max_buy_percent |-> max_buy_percent,
     whitelist |-> <<sender>>,
     blacklist |-> {},
     buy_tracking |-> NoBuyInfo]

\* table::contains on buy_tracking, a map from buyers to BuyInfo
Tracked(p, buyer) == buyer \in DOMAIN p.buy_tracking

\* An activation that does not wait for enable_time
Activate_Early(p, current_time) ==
    [p EXCEPT !.trading_enabled = TRUE]

\* anti_bot.move lines 110-117: the lazy activation
Activate(p, current_time) ==
    IF ~p.trading_enabled /\ current_time >= p.enable_time
    THEN [p EXCEPT !.trading_enabled = TRUE]
    ELSE p

\* An update that overwrites the running total with the amount
RecordBuy_Overwrite(p, buyer, amount, current_time) ==
    [p EXCEPT !.buy_tracking = SetEntry(@, buyer,
        [total_bought |-> amount, last_buy_time |-> current_time])]

\* anti_bot.move lines 126-144: the update of the buyer's record
RecordBuy(p, buyer, amount, current_time) ==
    IF Tracked(p, buyer)
    THEN [p EXCEPT !.buy_tracking = SetEntry(@, buyer,
            [total_bought |-> @[buyer].total_bought + amount,
             last_buy_time |-> current_time])]
    ELSE [p EXCEPT !.buy_tracking = SetEntry(@, buyer,
            [total_bought |-> amount, last_buy_time |-> current_time])]

\* A whitelist test that skips the owner's entry
WhitelistBypass_SkipsOwner(p, buyer) ==
    \E i \in 2..Len(p.whitelist) : p.whitelist[i] = buyer

\* anti_bot.move lines 97-100: the whitelist test of check_can_buy
WhitelistBypass(p, buyer) == is_whitelisted(p, buyer)

\* A blacklist test that finds nobody
Blacklisted_Nobody(p, buyer) == FALSE

\* anti_bot.move lines 102-105: the blacklist test of check_can_buy
Blacklisted(p, buyer) == buyer \in p.blacklist

\* A cap of twice the percentage
MaxBuyAmount_Doubled(total_supply, max_buy_percent) ==
    (total_supply * max_buy_percent * 2) \div BasisPoints

\* anti_bot.move line 122: max_buy_amount
MaxBuyAmount(total_supply, max_buy_percent) ==
    (total_supply * max_buy_percent) \div BasisPoints

\* A cooldown test that lets the buyer back one second late
CooledDown_Late(p, buyer, current_time) ==
    (current_time - p.buy_tracking[buyer].last_buy_time) > p.cooldown_period

\* anti_bot.move lines 130-133: the cooldown test of a buyer with a record
CooledDown(p, buyer, current_time) ==
    (current_time - p.buy_tracking[buyer].last_buy_time) >= p.cooldown_period

\* A check_can_buy that runs the lazy activation before the list tests
check_can_buy_ActivatesFirst(p, buyer, amount, total_supply, current_time) ==
    LET p1 == Activate(p, current_time)
    IN IF WhitelistBypass(p1, buyer) THEN Return("true", p1)
       ELSE IF Blacklisted(p1, buyer) THEN Return("false", p1)
       ELSE IF ~p1.trading_enabled THEN Abort("ETradingNotEnabled")
       ELSE IF Overflows(total_supply * p1.max_buy_percent)
            THEN Abort("ARITHMETIC_ERROR")
       ELSE IF ~(amount <= MaxBuyAmount(total_supply, p1.max_buy_percent))
            THEN Abort("EExceedsMaxBuyLimit")
       ELSE IF Tracked(p1, buyer) /\ ~CooledDown(p1, buyer, current_time)
            THEN Abort("EInsufficientCooldown")
       ELSE IF /\ Tracked(p1, buyer)
               /\ Overflows(p1.buy_tracking[buyer].total_bought + amount)
            THEN Abort("ARITHMETIC_ERROR")
       ELSE Return("true", RecordBuy(p1, buyer, amount, current_time))

\* anti_bot.move lines 89-147
check_can_buy(p, buyer, amount, total_supply, current_time) ==
    IF WhitelistBypass(p, buyer) THEN Return("true", p)
    ELSE IF Blacklisted(p, buyer) THEN Return("false", p)
    ELSE LET p1 == Activate(p, current_time)
         IN IF ~p1.trading_enabled THEN Abort("ETradingNotEnabled")
            ELSE IF Overflows(total_supply * p1.max_buy_percent)
                 THEN Abort("ARITHMETIC_ERROR")
            ELSE IF ~(amount <= MaxBuyAmount(total_supply, p1.max_buy_percent))
                 THEN Abort("EExceedsMaxBuyLimit")
            ELSE IF Tracked(p1, buyer) /\ ~CooledDown(p1, buyer, current_time)
                 THEN Abort("EInsufficientCooldown")
            ELSE IF /\ Tracked(p1, buyer)
                    /\ Overflows(p1.buy_tracking[buyer].total_bought + amount)
                 THEN Abort("ARITHMETIC_ERROR")
            ELSE Return("true", RecordBuy(p1, buyer, amount, current_time))

\* An add_to_whitelist that does not look for the address first
add_to_whitelist_Unchecked(p, sender, address) ==
    IF NotOwner(p, sender) THEN Abort("0")
    ELSE Return("unit", [p EXCEPT !.whitelist = Append(@, address)])

\* anti_bot.move lines 150-169
add_to_whitelist(p, sender, address) ==
    IF NotOwner(p, sender) THEN Abort("0")
    ELSE IF is_whitelisted(p, address) THEN Abort("EAddressAlreadyWhitelisted")
    ELSE Return("unit", [p EXCEPT !.whitelist = Append(@, address)])

\* anti_bot.move lines 172-185
remove_from_whitelist(p, sender, address) ==
    IF NotOwner(p, sender) THEN Abort("0")
    ELSE IF IndexOf(p.whitelist, address) = 0 THEN Abort("EAddressNotWhitelisted")
    ELSE Return("unit", [p EXCEPT !.whitelist = RemoveAt(@, IndexOf(@, address))])

\* anti_bot.move lines 188-204; table::add aborts on a key that is present
add_to_blacklist(p, sender, address) ==
    IF NotOwner(p, sender) THEN Abort("0")
    ELSE IF address \in p.blacklist THEN Abort("EFieldAlreadyExists")
    ELSE Return("unit", [p EXCEPT !.blacklist = @ \cup {address}])

\* anti_bot.move lines 207-218
remove_from_blacklist(p, sender, address) ==
    IF NotOwner(p, sender) THEN Abort("0")
    ELSE IF address \notin p.blacklist THEN Abort("EAddressNotWhitelisted")
    ELSE Return("unit", [p EXCEPT !.blacklist = @ \ {address}])

\* An enable_trading that switches trading off when it is on
enable_trading_Toggle(p, sender) ==
    IF NotOwner(p, sender) THEN Abort("0")
    ELSE Return("unit", [p EXCEPT !.trading_enabled = ~@])

\* anti_bot.move lines 226-239
enable_trading(p, sender) ==
    IF NotOwner(p, sender) THEN Abort("0")
    ELSE Return("unit", [p EXCEPT !.trading_enabled = TRUE])

\* anti_bot.move lines 242-251
update_max_buy_percent(p, sender, new_percent) ==
    IF NotOwner(p, sender) THEN Abort("0")
    ELSE Return("unit", [p EXCEPT !.max_buy_percent = new_percent])

\* anti_bot.move lines 254-263
update_cooldown_period(p, sender, new_period) ==
    IF NotOwner(p, sender) THEN Abort("0")
    ELSE Return("unit", [p EXCEPT !.cooldown_period = new_period])

\* No check_can_buy has passed for any buyer.  sum and latest are over all
\* the passing checks of the buyer, trackedSum and trackedLatest over those
\* that did not pass on the whitelist test.
NoBuys ==
    [b \in Addresses |-> [sum |-> 0, latest |-> 0, trackedSum |-> 0, trackedLatest |-> 0]]

\* The buyer's check has passed
Bought(h, buyer, amount, time, bypassed) ==
    [h EXCEPT ![buyer] =
        [sum |-> @.sum + amount,
         latest |-> time,
         trackedSum |-> IF bypassed THEN @.trackedSum ELSE @.trackedSum + amount,
         trackedLatest |-> IF bypassed THEN @.trackedLatest ELSE time]]

\* The number of transactions made so far
TxCount == IF lastTx = <<>> THEN 0 ELSE lastTx[1].n

\* A transaction on the object ends: the Clock has advanced by d, the object
\* is the one the call left, or the one before the call if it aborted
Commit(fn, sender, address, amount, total_supply, d, r) ==
    /\ chainTime' = chainTime + d
    /\ protection' = IF r.aborted THEN protection ELSE r.p
    /\ enabledManually' = (enabledManually \/ (fn = "enable_trading" /\ ~r.aborted))
    /\ created' = IF fn = "create_protection" /\ ~r.aborted THEN created + 1 ELSE created
    /\ buyHistory' =
          IF fn = "check_can_buy" /\ ~r.aborted /\ r.ret = "true"
          THEN Bought(buyHistory, sender, amount, Seconds(chainTime + d),
                      \E i \in DOMAIN protection[1].whitelist :
                          protection[1].whitelist[i] = sender)
          ELSE buyHistory
    /\ lastTx' = <<[n |-> TxCount + 1, fn |-> fn, sender |-> sender,
                    address |-> address, amount |-> amount,
                    total_supply |-> total_supply,
                    time |-> Seconds(chainTime + d),
                    outcome |-> IF r.aborted THEN "abort" ELSE r.ret,
                    code |-> r.code,
                    whitelisted |-> (protection # <<>> /\
                        \E i \in DOMAIN protection[1].whitelist :
                            protection[1].whitelist[i] = address),
                    blacklisted |-> (protection # <<>> /\
                        address \in protection[1].blacklist),
                    enabledBefore |-> (protection # <<>> /\
                        protection[1].trading_enabled)]>>
    /\ UNCHANGED rateVars
    /\ UNCHANGED listenerVars
    /\ UNCHANGED normVars
    /\ UNCHANGED deployVars
    /\ UNCHANGED lockerVars
    /\ UNCHANGED feeVars
    /\ UNCHANGED pollVars

\* create_protection for the token_id: first called by the deployer's
\* setupAntiBot, and open to every later caller.  Each call shares a new
\* object; the one followed is the object of the deployment.
CreateProtection(sender, cooldown_period, max_buy_percent, enable_time_delay, d) ==
    /\ protection = <<>> => sender = Deployer
    /\ TxCount < MaxTxs
    /\ LET object == NewProtection(sender, cooldown_period, max_buy_percent,
                                   enable_time_delay, Seconds(chainTime + d))
       IN Commit("create_protection", sender, sender, 0, 0, d,
                 Return("unit", IF protection = <<>> THEN object ELSE protection[1]))

CheckCanBuy(buyer, amount, total_supply, d) ==
    /\ protection # <<>>
    /\ TxCount < MaxTxs
    /\ Commit("check_can_buy", buyer, buyer, amount, total_supply, d,
              check_can_buy(protection[1], buyer, amount, total_supply,
                            Seconds(chainTime + d)))

AddToWhitelist(sender, address, d) ==
    /\ protection # <<>>
    /\ TxCount < MaxTxs
    /\ Commit("add_to_whitelist", sender, address, 0, 0, d,
              add_to_whitelist(protection[1], sender, address))

RemoveFromWhitelist(sender, address, d) ==
    /\ protection # <<>>
    /\ TxCount < MaxTxs
    /\ Commit("remove_from_whitelist", sender, address, 0, 0, d,
              remove_from_whitelist(protection[1], sender, address))

AddToBlacklist(sender, address, d) ==
    /\ protection # <<>>
    /\ TxCount < MaxTxs
    /\ Commit("add_to_blacklist", sender, address, 0, 0, d,
              add_to_blacklist(protection[1], sender, address))

RemoveFromBlacklist(sender, address, d) ==
    /\ protection # <<>>
    /\ TxCount < MaxTxs
    /\ Commit("remove_from_blacklist", sender, address, 0, 0, d,
              remove_from_blacklist(protection[1], sender, address))

EnableTrading(sender, d) ==
    /\ protection # <<>>
    /\ TxCount < MaxTxs
    /\ Commit("enable_trading", sender, sender, 0, 0, d,
              enable_trading(protection[1], sender))

UpdateMaxBuyPercent(sender, new_percent, d) ==
    /\ protection # <<>>
    /\ TxCount < MaxTxs
    /\ Commit("update_max_buy_percent", sender, sender, 0, 0, d,
              update_max_buy_percent(protection[1], sender, new_percent))

UpdateCooldownPeriod(sender, new_period, d) ==
    /\ protection # <<>>
    /\ TxCount < MaxTxs
    /\ Commit("update_cooldown_period", sender, sender, 0, 0, d,
              update_cooldown_period(protection[1], sender, new_period))

-----------------------------------------------------------------------------
(* liquidity_locker.move: module suiforge::liquidity_locker.  The shared     *)
(* LiquidityLocker holds the locks in a table keyed by the address of each   *)
(* Lock; the AdminCap is with the address that published the package.        *)

\* liquidity_locker.move line 331: 30 * 24 * 60 * 60
DefaultMinLockDuration == 2592000

\* The holder of the AdminCap (lines 324-326, 337)
Admin == Deployer

\* The arguments transactions on the locker are made with
LockDurations == {DefaultMinLockDuration - 1, DefaultMinLockDuration}
NewMinLockDurations == {DefaultMinLockDuration - 1, DefaultMinLockDuration}
LpAmounts == {5, 7}

\* Ticks the Clock may advance between two transactions on the locker: into
\* the same second or the next one, or to the last tick before the default
\* lock duration has passed
LockClockSteps == {1, 2 * DefaultMinLockDuration - 1}

\* table::new: no lock is stored
NoLocks == [id \in {} |-> 0]

\* liquidity_locker.move lines 321-338: the object init shares
NewLocker ==
    [locks |-> NoLocks,
     min_lock_duration |-> DefaultMinLockDuration,
     lock_count |-> 0]

\* object::new, object::uid_to_address (lines 360, 368): an address no lock
\* had before
FreshLockAddr(l) == l.lock_count + 1

\* A removal that leaves the entry in the table
RemoveEntry_Keeps(table, key) == table

\* table::remove
RemoveEntry(table, key) == [k \in DOMAIN table \ {key} |-> table[k]]

\* A lock_liquidity that accepts every duration
lock_liquidity_AnyDuration(l, sender, amount, lock_duration, current_time) ==
    Return("unit",
           [l EXCEPT !.locks = SetEntry(@, FreshLockAddr(l),
                        [token_balance |-> amount,
                         token_type |-> "CoinType",
                         locker |-> sender,
                         unlock_time |-> current_time + lock_duration]),
                     !.lock_count = @ + 1])

\* liquidity_locker.move lines 341-384
lock_liquidity(l, sender, amount, lock_duration, current_time) ==
    IF ~(lock_duration >= l.min_lock_duration) THEN Abort("EInvalidLockDuration")
    ELSE IF Overflows(current_time + lock_duration) THEN Abort("ARITHMETIC_ERROR")
    ELSE Return("unit",
                [l EXCEPT !.locks = SetEntry(@, FreshLockAddr(l),
                             [token_balance |-> amount,
                              token_type |-> "CoinType",
                              locker |-> sender,
                              unlock_time |-> current_time + lock_duration]),
                          !.lock_count = @ + 1])

\* A maturity test that opens the lock one second early
Matured_Early(lock, current_time) == current_time + 1 >= lock.unlock_time

\* liquidity_locker.move lines 403-405: the maturity test of unlock_liquidity
Matured(lock, current_time) == current_time >= lock.unlock_time

\* A test of the caller that lets everybody through
IsLockOwner_Anyone(lock, sender) == TRUE

\* liquidity_locker.move lines 399-401: the test of the caller
IsLockOwner(lock, sender) == lock.locker = sender

\* A payout of half the balance
Payout_Half(lock) == [to |-> lock.locker, value |-> lock.token_balance \div 2]

\* liquidity_locker.move lines 407-409: coin::from_balance of the whole
\* token_balance, transferred to lock_owner
Payout(lock) == [to |-> lock.locker, value |-> lock.token_balance]

\* An abort that leaves behind what the call had written
AbortAfter_KeepsWrites(code, written) ==
    [aborted |-> TRUE, code |-> code, ret |-> "none", p |-> <<written>>]

\* liquidity_locker.move lines 401 and 405: an assert! that fails after the
\* call has written the object written; the abort discards the writes
AbortAfter(code, written) == Abort(code)

\* liquidity_locker.move lines 387-418: the record is taken out of the
\* table (line 397) before the caller and the time are tested; the call
\* returns the transfer it made
unlock_liquidity(l, sender, lock_id, current_time) ==
    IF lock_id \notin DOMAIN l.locks THEN Abort("ELockNotFound")
    ELSE LET lock == l.locks[lock_id]
             removed == [l EXCEPT !.locks = RemoveEntry(@, lock_id)]
         IN IF ~IsLockOwner(lock, sender) THEN AbortAfter("EInvalidLock", removed)
            ELSE IF ~Matured(lock, current_time)
                 THEN AbortAfter("ELockStillActive", removed)
            ELSE Return(Payout(lock), removed)

\* liquidity_locker.move lines 421-427
update_min_lock_duration(l, new_duration) ==
    Return("unit", [l EXCEPT !.min_lock_duration = new_duration])

\* liquidity_locker.move lines 430-444
get_lock_info(l, lock_id) ==
    IF lock_id \notin DOMAIN l.locks THEN Abort("ELockNotFound")
    ELSE Return(<<l.locks[lock_id].token_type,
                  l.locks[lock_id].locker,
                  l.locks[lock_id].token_balance,
                  l.locks[lock_id].unlock_time>>, l)

\* The number of transactions made on the locker so far
LockTxCount == IF lastLockTx = <<>> THEN 0 ELSE lastLockTx[1].n

\* A transaction on the locker ends: the Clock has advanced by d, the locker
\* is the one the call left, or the one before the call if the abort left
\* none, and a transfer the call made has happened only if it did not abort
CommitLock(fn, sender, lock_id, amount, lock_duration, d, r) ==
    /\ chainTime' = chainTime + d
    /\ locker' = IF r.p = <<>> THEN locker ELSE r.p[1]
    /\ lockLog' =
          IF fn = "lock_liquidity" /\ ~r.aborted
          THEN SetEntry(lockLog, lock_id,
                        [stored |-> r.p[1].locks[lock_id],
                         amount |-> amount,
                         created |-> Seconds(chainTime + d),
                         lock_duration |-> lock_duration,
                         min_lock_duration |-> locker.min_lock_duration])
          ELSE lockLog
    /\ transfers' =
          IF fn = "unlock_liquidity" /\ ~r.aborted
          THEN transfers \cup {[lock_id |-> lock_id, to |-> r.ret.to,
                                value |-> r.ret.value, sender |-> sender,
                                time |-> Seconds(chainTime + d)]}
          ELSE transfers
    /\ lastLockTx' = <<[n |-> LockTxCount + 1, fn |-> fn, sender |-> sender,
                        lock_id |-> lock_id, amount |-> amount,
                        lock_duration |-> lock_duration,
                        time |-> Seconds(chainTime + d),
                        outcome |-> IF r.aborted THEN "abort" ELSE "ok",
                        code |-> r.code]>>
    /\ UNCHANGED rateVars
    /\ UNCHANGED listenerVars
    /\ UNCHANGED normVars
    /\ UNCHANGED deployVars
    /\ UNCHANGED antiBotVars
    /\ UNCHANGED feeVars
    /\ UNCHANGED pollVars

LockLiquidity(sender, amount, lock_duration, d) ==
    /\ LockTxCount < MaxLockTxs
    /\ locker.lock_count < MaxLocks
    /\ CommitLock("lock_liquidity", sender, FreshLockAddr(locker), amount,
                  lock_duration, d,
                  lock_liquidity(locker, sender, amount, lock_duration,
                                 Seconds(chainTime + d)))

UnlockLiquidity(sender, lock_id, d) ==
    /\ LockTxCount < MaxLockTxs
    /\ CommitLock("unlock_liquidity", sender, lock_id, 0, 0, d,
                  unlock_liquidity(locker, sender, lock_id, Seconds(chainTime + d)))

\* get_lock_info, called in a transaction of any address
GetLockInfo(sender, lock_id, d) ==
    /\ LockTxCount < MaxLockTxs
    /\ CommitLock("get_lock_info", sender, lock_id, 0, 0, d,
                  get_lock_info(locker, lock_id))

\* update_min_lock_duration takes the AdminCap, which only Admin can pass
UpdateMinLockDuration(new_duration, d) ==
    /\ LockTxCount < MaxLockTxs
    /\ CommitLock("update_min_lock_duration", Admin, 0, 0, new_duration, d,
                  update_min_lock_duration(locker, new_duration))

-----------------------------------------------------------------------------
(* fee_distributor.move: module suiforge::fee_distributor.  The shared       *)
(* FeeDistributor holds the protocol's balance; each TokenFeeConfig holds    *)
(* the balance of one token's creator.  The AdminCap is with the address     *)
(* that published the package.                                               *)

\* fee_distributor.move lines 60-61: the default split
DefaultProtocolFeeBps == 200
DefaultCreatorFeeBps == 800

\* fee_distributor.move line 178: what the two shares must add up to
TotalFeeBps == 1000

\* The arguments transactions on the fee objects are made with: a fee the
\* split of which leaves a remainder, and one whose product with a share does
\* not fit a u64
Tokens == {"t1", "t2"}
FeeAmounts == {7, 100000}
FeeShares == {<<DefaultProtocolFeeBps, DefaultCreatorFeeBps>>, <<333, 667>>, <<500, 400>>}

\* fee_distributor.move lines 52-66: the object init shares
NewDistributor ==
    [protocol_fee_bps |-> DefaultProtocolFeeBps,
     creator_fee_bps |-> DefaultCreatorFeeBps,
     protocol_fee_recipient |-> Admin,
     protocol_balance |-> 0,
     total_fees_collected |-> 0]

\* No TokenFeeConfig has been created
NoConfigs == [t \in {} |-> 0]

\* fee_distributor.move lines 73-87: the object create_token_fee_config shares
NewConfig(token_id, creator) ==
    [token_id |-> token_id, creator |-> creator, creator_balance |-> 0,
     fees_collected |-> 0]

\* What a call on the fee objects does: it aborts, or it leaves the
\* distributor dist and the config conf and may have transferred a coin
FeeReturn(dist, conf, paid) ==
    [aborted |-> FALSE, code |-> "none", dist |-> dist, conf |-> conf, paid |-> paid]
FeeAbort(code, dist, conf) ==
    [aborted |-> TRUE, code |-> code, dist |-> dist, conf |-> conf, paid |-> <<>>]

\* A share of the fee that is rounded up
ProtocolAmount_RoundedUp(fee_amount, protocol_fee_bps, total_bps) ==
    (fee_amount * protocol_fee_bps + total_bps - 1) \div total_bps

\* fee_distributor.move line 101: protocol_amount
ProtocolAmount(fee_amount, protocol_fee_bps, total_bps) ==
    (fee_amount * protocol_fee_bps) \div total_bps

\* fee_distributor.move lines 90-124
collect_fees(dist, conf, fee_amount) ==
    LET total_bps == dist.protocol_fee_bps + dist.creator_fee_bps
        protocol_amount == ProtocolAmount(fee_amount, dist.protocol_fee_bps, total_bps)
        creator_amount == fee_amount - protocol_amount
    IN IF Overflows(total_bps) THEN FeeAbort("ARITHMETIC_ERROR", dist, conf)
       ELSE IF Overflows(fee_amount * dist.protocol_fee_bps)
            THEN FeeAbort("ARITHMETIC_ERROR", dist, conf)
       ELSE IF total_bps = 0 THEN FeeAbort("ARITHMETIC_ERROR", dist, conf)
       ELSE IF protocol_amount > fee_amount THEN FeeAbort("ENotEnough", dist, conf)
       ELSE IF Overflows(dist.protocol_balance + protocol_amount)
                 \/ Overflows(conf.creator_balance + creator_amount)
                 \/ Overflows(dist.total_fees_collected + fee_amount)
                 \/ Overflows(conf.fees_collected + fee_amount)
            THEN FeeAbort("ARITHMETIC_ERROR", dist, conf)
       ELSE FeeReturn([dist EXCEPT !.protocol_balance = @ + protocol_amount,
                                   !.total_fees_collected = @ + fee_amount],
                      [conf EXCEPT !.creator_balance = @ + creator_amount,
                                   !.fees_collected = @ + fee_amount],
                      <<>>)

\* A withdrawal that leaves one unit behind
Drain_AllButOne(balance) == [paid |-> balance - 1, left |-> 1]

\* fee_distributor.move lines 135-138, 154-157: balance::split of the whole
\* amount
Drain(balance) == [paid |-> balance, left |-> 0]

\* fee_distributor.move lines 127-141
withdraw_protocol_fees(dist, conf) ==
    LET amount == dist.protocol_balance IN
    IF ~(amount > 0) THEN FeeAbort("EInsufficientBalance", dist, conf)
    ELSE FeeReturn([dist EXCEPT !.protocol_balance = Drain(amount).left], conf,
                   <<[to |-> dist.protocol_fee_recipient, value |-> Drain(amount).paid]>>)

\* fee_distributor.move lines 144-169
withdraw_creator_fees(dist, conf, sender) ==
    LET amount == conf.creator_balance IN
    IF ~(conf.creator = sender) THEN FeeAbort("0", dist, conf)
    ELSE IF ~(amount > 0) THEN FeeAbort("EInsufficientBalance", dist, conf)
    ELSE FeeReturn(dist, [conf EXCEPT !.creator_balance = Drain(amount).left],
                   <<[to |-> conf.creator, value |-> Drain(amount).paid]>>)

\* An update that takes every pair of shares
update_fee_distribution_Unchecked(dist, conf, protocol_fee_bps, creator_fee_bps) ==
    FeeReturn([dist EXCEPT !.protocol_fee_bps = protocol_fee_bps,
                           !.creator_fee_bps = creator_fee_bps], conf, <<>>)

\* fee_distributor.move lines 172-183
update_fee_distribution(dist, conf, protocol_fee_bps, creator_fee_bps) ==
    IF Overflows(protocol_fee_bps + creator_fee_bps)
    THEN FeeAbort("ARITHMETIC_ERROR", dist, conf)
    ELSE IF ~(protocol_fee_bps + creator_fee_bps = TotalFeeBps)
    THEN FeeAbort("EInvalidFeeShare", dist, conf)
    ELSE FeeReturn([dist EXCEPT !.protocol_fee_bps = protocol_fee_bps,
                                !.creator_fee_bps = creator_fee_bps], conf, <<>>)

\* fee_distributor.move lines 186-192
update_protocol_fee_recipient(dist, conf, new_recipient) ==
    FeeReturn([dist EXCEPT !.protocol_fee_recipient = new_recipient], conf, <<>>)

\* The number of transactions made on the fee objects so far
FeeTxCount == IF lastFeeTx = <<>> THEN 0 ELSE lastFeeTx[1].n

\* A transaction on the distributor and the config of token_id ends: the
\* objects are the ones the call left, or the ones before the call if it
\* aborted
CommitFee(fn, sender, token_id, fee_amount, r) ==
    /\ distributor' = IF r.aborted THEN distributor ELSE r.dist
    /\ configs' = IF r.aborted \/ token_id \notin DOMAIN configs
                  THEN configs
                  ELSE [configs EXCEPT ![token_id] = r.conf]
    /\ lastFeeTx' = <<[n |-> FeeTxCount + 1, fn |-> fn, sender |-> sender,
                       token_id |-> token_id, fee_amount |-> fee_amount,
                       outcome |-> IF r.aborted THEN "abort" ELSE "ok",
                       code |-> r.code,
                       paid |-> IF r.aborted THEN <<>> ELSE r.paid]>>
    /\ UNCHANGED rateVars
    /\ UNCHANGED listenerVars
    /\ UNCHANGED normVars
    /\ UNCHANGED deployVars
    /\ UNCHANGED antiBotVars
    /\ UNCHANGED lockerVars
    /\ UNCHANGED chainTime
    /\ UNCHANGED pollVars

\* create_token_fee_config, as the deployer's setupFeeDistribution calls it;
\* the config followed for a token is the first one created for it
CreateTokenFeeConfig(sender, token_id, creator) ==
    /\ FeeTxCount < MaxFeeTxs
    /\ token_id \notin DOMAIN configs
    /\ configs' = SetEntry(configs, token_id, NewConfig(token_id, creator))
    /\ distributor' = distributor
    /\ lastFeeTx' = <<[n |-> FeeTxCount + 1, fn |-> "create_token_fee_config",
                       sender |-> sender, token_id |-> token_id, fee_amount |-> 0,
                       outcome |-> "ok", code |-> "none", paid |-> <<>>]>>
    /\ UNCHANGED rateVars
    /\ UNCHANGED listenerVars
    /\ UNCHANGED normVars
    /\ UNCHANGED deployVars
    /\ UNCHANGED antiBotVars
    /\ UNCHANGED lockerVars
    /\ UNCHANGED chainTime
    /\ UNCHANGED pollVars

CollectFees(sender, token_id, fee_amount) ==
    /\ FeeTxCount < MaxFeeTxs
    /\ token_id \in DOMAIN configs
    /\ CommitFee("collect_fees", sender, token_id, fee_amount,
                 collect_fees(distributor, configs[token_id], fee_amount))

\* withdraw_protocol_fees takes the AdminCap, which only Admin can pass
WithdrawProtocolFees ==
    /\ FeeTxCount < MaxFeeTxs
    /\ CommitFee("withdraw_protocol_fees", Admin, "none", 0,
                 withdraw_protocol_fees(distributor, <<>>))

WithdrawCreatorFees(sender, token_id) ==
    /\ FeeTxCount < MaxFeeTxs
    /\ token_id \in DOMAIN configs
    /\ CommitFee("withdraw_creator_fees", sender, token_id, 0,
                 withdraw_creator_fees(distributor, configs[token_id], sender))

\* update_fee_distribution takes the AdminCap
UpdateFeeDistribution(protocol_fee_bps, creator_fee_bps) ==
    /\ FeeTxCount < MaxFeeTxs
    /\ CommitFee("update_fee_distribution", Admin, "none", 0,
                 update_fee_distribution(distributor, <<>>, protocol_fee_bps,
                                         creator_fee_bps))

\* update_protocol_fee_recipient takes the AdminCap
UpdateProtocolFeeRecipient(new_recipient) ==
    /\ FeeTxCount < MaxFeeTxs
    /\ CommitFee("update_protocol_fee_recipient", Admin, "none", 0,
                 update_protocol_fee_recipient(distributor, <<>>, new_recipient))

-----------------------------------------------------------------------------

InitAdmission ==
    /\ now = 0
    /\ userActivityTracker = NoTracker
    /\ rateLog = <<>>
    /\ processedTweets = {}
    /\ processedCasts = {}
    /\ processedMessages = {}
    /\ calls = 0
    /\ passed = [k \in EventKeys |-> 0]
    /\ skippedDup = [k \in EventKeys |-> 0]
    /\ inflight = {}
    /\ deployments = {}
    /\ lastReply = <<>>

InitDeploy ==
    /\ dpc = "idle"
    /\ steps = <<>>
    /\ result = <<>>
    /\ outcomes = <<>>
    /\ tokenMetadata = <<>>
    /\ tokenId = "none"

InitChain ==
    /\ protection = <<>>
    /\ chainTime = 0
    /\ enabledManually = FALSE
    /\ lastTx = <<>>
    /\ buyHistory = NoBuys
    /\ created = 0
    /\ locker = NewLocker
    /\ lockLog = NoLocks
    /\ transfers = {}
    /\ lastLockTx = <<>>
    /\ distributor = NewDistributor
    /\ configs = NoConfigs
    /\ lastFeeTx = <<>>
    /\ lastTweetId = <<>>
    /\ pollLog = <<>>

Init ==
    /\ InitAdmission
    /\ InitDeploy
    /\ InitChain
    /\ parsed = ParseFailure
    /\ validated = <<>>

InitNorm ==
    /\ InitAdmission
    /\ InitDeploy
    /\ InitChain
    /\ parsed \in ParsedInputs
    /\ validated = <<>>

Next ==
    \/ \E tweet \in Tweets : ProcessTweet(tweet)
    \/ \E cast \in Casts : ProcessCast(cast)
    \/ \E ctx \in Updates, d \in MessageElapsed : ProcessMessage(ctx, d)
    \/ \E c \in inflight, ok \in BOOLEAN : SendChatActionReturns(c, ok)
    \/ \E req \in Requests : ProcessMessageRoute(req)
    \/ \E c \in inflight, deploymentResult \in DeploymentResults :
            DeploymentReturns(c, deploymentResult)

Spec == Init /\ [][Next]_vars

NextRate == \E userId \in Users, d \in Elapsed : RateLimitCall(userId, d)

SpecRate == Init /\ [][NextRate]_vars

NextNorm == \E random \in RandomIndexes : Validate(random)

SpecNorm == InitNorm /\ [][NextNorm]_vars

NextDeploy ==
    \/ Invoke
    \/ \E parsedRequest \in ParseResults, random \in RandomIndexes, jsonNull \in BOOLEAN :
            ParseTokenRequestReturns(parsedRequest, random, jsonNull)
    \/ \E content \in ContentOutcomes : GenerateTokenMetadataReturns(content)
    \/ \E tokenImagery \in Imagery, signerOk \in BOOLEAN :
            GenerateTokenImageryReturns(tokenImagery, signerOk)
    \/ \E txResult \in TxResults : CreateTokenReturns(txResult)
    \/ \E ok \in BOOLEAN : SetupAntiBotReturns(ok)
    \/ \E ok \in BOOLEAN : SetupFeeDistributionReturns(ok)
    \/ \E ok \in BOOLEAN : ProvideLiquidityReturns(ok)
    \/ \E ok \in BOOLEAN : LockLiquidityReturns(ok)

SpecDeploy == Init /\ [][NextDeploy]_vars

\* Every collaborator call resolves or rejects, except the submission of the
\* create_token transaction (signAndExecuteTransactionBlock), which may stay
\* pending for ever
AnswersButLedger ==
    \/ \E parsedRequest \in ParseResults, random \in RandomIndexes, jsonNull \in BOOLEAN :
            ParseTokenRequestReturns(parsedRequest, random, jsonNull)
    \/ \E content \in ContentOutcomes : GenerateTokenMetadataReturns(content)
    \/ \E tokenImagery \in Imagery, signerOk \in BOOLEAN :
            GenerateTokenImageryReturns(tokenImagery, signerOk)
    \/ \E ok \in BOOLEAN : SetupAntiBotReturns(ok)
    \/ \E ok \in BOOLEAN : SetupFeeDistributionReturns(ok)
    \/ \E ok \in BOOLEAN : ProvideLiquidityReturns(ok)
    \/ \E ok \in BOOLEAN : LockLiquidityReturns(ok)

\* The pipeline under a scheduler that runs every continuation that is
\* ready: the call is made, and every promise but the ledger's settles
SpecDeployLive ==
    Init /\ [][NextDeploy]_vars /\ WF_vars(Invoke) /\ WF_vars(AnswersButLedger)

NextAntiBot ==
    \/ \E enable_time_delay \in EnableTimeDelays, d \in ClockSteps :
            /\ protection = <<>>
            /\ CreateProtection(Deployer, DeployedCooldownPeriod, DeployedMaxBuyPercent,
                                enable_time_delay, d)
    \/ \E buyer \in Addresses, amount \in Amounts, total_supply \in TotalSupplies,
          d \in ClockSteps :
            CheckCanBuy(buyer, amount, total_supply, d)
    \/ \E sender \in Addresses, address \in Addresses, d \in ClockSteps :
            AddToWhitelist(sender, address, d)
    \/ \E sender \in Addresses, address \in Addresses, d \in ClockSteps :
            RemoveFromWhitelist(sender, address, d)
    \/ \E sender \in Addresses, address \in Addresses, d \in ClockSteps :
            AddToBlacklist(sender, address, d)
    \/ \E sender \in Addresses, address \in Addresses, d \in ClockSteps :
            RemoveFromBlacklist(sender, address, d)
    \/ \E sender \in Addresses, d \in ClockSteps : EnableTrading(sender, d)
    \/ \E sender \in Addresses, new_percent \in MaxBuyPercents, d \in ClockSteps :
            UpdateMaxBuyPercent(sender, new_percent, d)
    \/ \E sender \in Addresses, new_period \in CooldownPeriods, d \in ClockSteps :
            UpdateCooldownPeriod(sender, new_period, d)

SpecAntiBot == Init /\ [][NextAntiBot]_vars

\* The objects create_protection shares for one token_id: the call of the
\* deployment, the calls any address makes afterwards, and the checks made on
\* the object of the deployment meanwhile
NextProtections ==
    \/ \E sender \in Addresses, cooldown_period \in CooldownPeriods,
          max_buy_percent \in MaxBuyPercents, enable_time_delay \in EnableTimeDelays,
          d \in ClockSteps :
            CreateProtection(sender, cooldown_period, max_buy_percent,
                             enable_time_delay, d)
    \/ \E buyer \in Addresses, amount \in Amounts, total_supply \in TotalSupplies,
          d \in ClockSteps :
            CheckCanBuy(buyer, amount, total_supply, d)

SpecProtections == Init /\ [][NextProtections]_vars

NextLocker ==
    \/ \E sender \in Addresses, amount \in LpAmounts, lock_duration \in LockDurations,
          d \in LockClockSteps :
            LockLiquidity(sender, amount, lock_duration, d)
    \/ \E sender \in Addresses, lock_id \in 1..(locker.lock_count + 1),
          d \in LockClockSteps :
            UnlockLiquidity(sender, lock_id, d)
    \/ \E new_duration \in NewMinLockDurations, d \in LockClockSteps :
            UpdateMinLockDuration(new_duration, d)
    \/ \E lock_id \in 1..(locker.lock_count + 1), d \in LockClockSteps :
            GetLockInfo(Admin, lock_id, d)

SpecLocker == Init /\ [][NextLocker]_vars

NextPoll == \E response \in SearchResponses(lastTweetId) : PollTwitterMentions(response)

SpecPoll == Init /\ [][NextPoll]_vars

NextFees ==
    \/ \E sender \in Addresses, token_id \in Tokens, creator \in Addresses :
            CreateTokenFeeConfig(sender, token_id, creator)
    \/ \E sender \in Addresses, token_id \in Tokens, fee_amount \in FeeAmounts :
            CollectFees(sender, token_id, fee_amount)
    \/ WithdrawProtocolFees
    \/ \E sender \in Addresses, token_id \in Tokens : WithdrawCreatorFees(sender, token_id)
    \/ \E shares \in FeeShares : UpdateFeeDistribution(shares[1], shares[2])
    \/ \E new_recipient \in Addresses : UpdateProtocolFeeRecipient(new_recipient)

SpecFees == Init /\ [][NextFees]_vars

-----------------------------------------------------------------------------
(* Properties of the admission layer *)

DeploymentsOf(source, id) == {x \in deployments : x.source = source /\ x.id = id}

\* C1: for every listener and every event id, at most one call gets past the
\* duplicate check and at most one processTokenDeployment is started; a call
\* is answered 'Already processed' only after another call with that id got
\* past the check.
C1_IdempotentAdmission ==
    \A k \in EventKeys :
        /\ passed[k] <= 1
        /\ Cardinality(DeploymentsOf(k[1], k[2])) <= 1
        /\ skippedDup[k] > 0 => passed[k] = 1

\* C1 witness: a tweet is delivered again while its first call is still
\* awaiting processTokenDeployment, and a Telegram message is delivered twice.
C1_Witness ==
    /\ \E c \in inflight : /\ c.source = "twitter" /\ c.at = "deploying"
                           /\ skippedDup[<<"twitter", c.id>>] >= 1
    /\ \E m \in MessageIds : /\ passed[<<"telegram", m>>] = 1
                             /\ skippedDup[<<"telegram", m>>] >= 1

\* C5 (as claimed): every processTokenDeployment started, on any of the four
\* entry paths, was preceded by the duplicate check and the per-actor
\* rate-limit check of that request.
C5_AdmissionGatesEveryPath ==
    \A x \in deployments : x.dupChecked /\ x.rateChecked

-----------------------------------------------------------------------------
(* Properties of the rate limiter *)

CallsOf(userId) ==
    LET Mine(e) == e.userId = userId IN SelectSeq(rateLog, Mine)

\* The admitted calls of L made in the interval [from, from + length)
AdmittedIn(L, from, length) ==
    {i \in DOMAIN L : ~L[i].limited /\ from <= L[i].t /\ L[i].t < from + length}

\* j is the first call of L made once the cooldown started by call i is over
FirstAfterCooldown(L, i, j) ==
    /\ j > i
    /\ L[j].t >= L[i].t + cooldown
    /\ \A k \in (i + 1)..(j - 1) : L[k].t < L[i].t + cooldown

\* Call i of L opened a window: it was admitted and left count = 1
OpensWindow(L, i) ==
    ~L[i].limited /\ L[i].count = 1 /\ L[i].firstRequest = L[i].t

\* C2: for one actor, the first 3 calls inside one window (the call that opens
\* it and the next two) are admitted, the 4th call inside that window is
\* rate-limited, and the first call made once 86400 s have passed since that
\* 4th call is admitted and leaves count = 1 and firstRequest = its own time.
C2_RateWindowCorrectness ==
    \A u \in Users :
        LET L == CallsOf(u) IN
        /\ Len(L) > 0 => OpensWindow(L, 1)
        /\ \A w \in DOMAIN L : OpensWindow(L, w) =>
            /\ \A i \in w..(w + maxRequests - 1) :
                  (i <= Len(L) /\ L[i].t - L[w].t < timeWindow) => ~L[i].limited
            /\ (w + maxRequests <= Len(L)
                    /\ L[w + maxRequests].t - L[w].t < timeWindow) =>
                  /\ L[w + maxRequests].limited
                  /\ \A j \in DOMAIN L :
                        FirstAfterCooldown(L, w + maxRequests, j) => OpensWindow(L, j)

\* C2 witness: an actor's 4th call in the window was limited and the actor's
\* latest call, the first made once the cooldown was over, has been admitted.
C2_Witness ==
    \E u \in Users :
        LET L == CallsOf(u) IN
        /\ Len(L) > maxRequests + 1
        /\ L[maxRequests + 1].t - L[1].t < timeWindow
        /\ L[maxRequests + 1].limited
        /\ FirstAfterCooldown(L, maxRequests + 1, Len(L))
        /\ OpensWindow(L, Len(L))
        /\ userActivityTracker[u].count = 1
        /\ userActivityTracker[u].firstRequest = now

\* C3 (as claimed): every interval of length timeWindow holds at most
\* maxRequests admitted requests of one actor.
C3_SlidingWindowBound ==
    \A u \in Users :
        LET L == CallsOf(u) IN
        \A i \in DOMAIN L :
            Cardinality(AdmittedIn(L, L[i].t, timeWindow)) <= maxRequests

\* The step is a call of isRateLimited by userId
IsCallBy(userId) ==
    /\ Len(rateLog') = Len(rateLog) + 1
    /\ rateLog'[Len(rateLog')].userId = userId

\* C4: a call made while its actor is in cooldown (the clock reads less than
\* cooldownUntil) is rejected and leaves the actor's entry as it was, whether
\* or not the window has expired; and a call changes no other actor's entry.
C4_CooldownRejectsAndFrames ==
    [][\A u \in Users : IsCallBy(u) =>
          /\ (u \in DOMAIN userActivityTracker /\ now' < userActivityTracker[u].cooldownUntil) =>
                /\ rateLog'[Len(rateLog')].limited
                /\ userActivityTracker'[u] = userActivityTracker[u]
          /\ \A v \in Users \ {u} :
                IF v \in DOMAIN userActivityTracker
                THEN /\ v \in DOMAIN userActivityTracker'
                     /\ userActivityTracker'[v] = userActivityTracker[v]
                ELSE v \notin DOMAIN userActivityTracker'
      ]_vars

\* C4 witness: the last call was rejected in a cooldown that an earlier call
\* started, at a time when the window had already expired, while another
\* actor has an entry too.
C4_Witness ==
    /\ Len(rateLog) > 0
    /\ LET e == rateLog[Len(rateLog)]
           d == userActivityTracker[e.userId]
       IN /\ e.limited
          /\ d.isCoolingDown
          /\ e.t < d.cooldownUntil
          /\ d.cooldownUntil < e.t + cooldown
          /\ e.t - d.firstRequest >= timeWindow
          /\ DOMAIN userActivityTracker # {e.userId}

\* C6 (as claimed): every 24-hour interval holds at most 3 admitted requests
\* of one Telegram user.
C6_ThreePerDay ==
    \A u \in Users :
        LET L == CallsOf(u) IN
        \A i \in DOMAIN L :
            Cardinality(AdmittedIn(L, L[i].t, cooldown)) <= maxRequests

-----------------------------------------------------------------------------
(* Properties of the request normalizer *)

Chars(s) == {s[i] : i \in DOMAIN s}

SymbolLengthReason == "Token symbol must be 2-5 characters"

\* C7 (as claimed): whenever validateTokenParams returns isValid = true, the
\* resulting tokenSymbol consists only of the letters A-Z and the digits 0-9
\* and has 2 to 5 characters.
C7_SymbolSyntax ==
    (validated # <<>> /\ validated[1].isValid) =>
        /\ Chars(validated[1].tokenSymbol) \subseteq UpperLetters \cup Digits
        /\ Len(validated[1].tokenSymbol) \in MinSymbolLength..MaxSymbolLength

\* The call validated a request that passes every check before the symbol's
PassesUpToSymbol ==
    /\ validated # <<>>
    /\ parsed.isTokenRequest
    /\ parsed.confidence >= ConfidenceThreshold
    /\ Truthy(parsed.tokenName)

\* C8 (as claimed): the symbols "AB" and "ABCDE" are accepted and the symbols
\* "A", "ABCDEF" and "ab$" are rejected with the symbol-length reason.
C8_SymbolCasesAsClaimed ==
    PassesUpToSymbol =>
        /\ parsed.tokenSymbol \in {<<"A", "B">>, <<"A", "B", "C", "D", "E">>}
              => validated[1].isValid
        /\ parsed.tokenSymbol \in {<<"A">>, <<"A", "B", "C", "D", "E", "F">>,
                                   <<"a", "b", "$">>}
              => (~validated[1].isValid /\ validated[1].reason = SymbolLengthReason)

\* C8 (amended): the symbols "AB", "ABCDE" and "ab$" are accepted, "ab$" as
\* the symbol "AB"; the symbols "A" and "ABCDEF" are rejected with the
\* symbol-length reason.
C8_SymbolCases ==
    PassesUpToSymbol =>
        /\ parsed.tokenSymbol \in {<<"A", "B">>, <<"A", "B", "C", "D", "E">>}
              => (validated[1].isValid /\ validated[1].tokenSymbol = parsed.tokenSymbol)
        /\ parsed.tokenSymbol = <<"a", "b", "$">>
              => (validated[1].isValid /\ validated[1].tokenSymbol = <<"A", "B">>)
        /\ parsed.tokenSymbol \in {<<"A">>, <<"A", "B", "C", "D", "E", "F">>}
              => (~validated[1].isValid /\ validated[1].reason = SymbolLengthReason)

\* C8 witness: the symbol "ab$" has been validated.
C8_Witness ==
    /\ PassesUpToSymbol
    /\ parsed.tokenSymbol = <<"a", "b", "$">>
    /\ validated[1].isValid

\* C10 (as claimed): two calls of validateTokenParams with identical parsed
\* fields return identical results in every field.
C10_Deterministic ==
    [][(validated # <<>> /\ validated' # <<>> /\ parsed' = parsed)
            => validated' = validated]_vars

-----------------------------------------------------------------------------
(* Properties of processTokenDeployment *)

\* The parsed request is not one to deploy
NotDeployable(p) ==
    \/ ~p.isTokenRequest
    \/ p.confidence < ConfidenceThreshold
    \/ ~Truthy(p.tokenName)
    \/ ~Truthy(p.tokenSymbol)

\* C9: once parseTokenRequest has returned, a request that is no token
\* request, has confidence below 70 or lacks its name or its symbol has been
\* rejected, and neither metadata generation nor any later step was started
\* for it; a request with confidence exactly 70, with name and symbol, is not
\* rejected for its confidence.
C9_RejectsBeforeExpensiveWork ==
    dpc \notin {"idle", "parse"} =>
        /\ NotDeployable(parsed) =>
              /\ dpc = "returned"
              /\ ~result[1].success
              /\ steps = <<"parse">>
        /\ (/\ parsed.isTokenRequest
            /\ parsed.confidence = ConfidenceThreshold
            /\ Truthy(parsed.tokenName)
            /\ Truthy(parsed.tokenSymbol)
            /\ result # <<>>)
              => result[1].reason # "Not a valid token request or low confidence"

\* C9 witness: a request with confidence exactly 70 and no symbol has been
\* rejected for the missing symbol.
C9_Witness ==
    /\ dpc = "returned"
    /\ parsed.isTokenRequest
    /\ parsed.confidence = ConfidenceThreshold
    /\ Truthy(parsed.tokenName)
    /\ ~Truthy(parsed.tokenSymbol)
    /\ result = Failure("Missing token symbol")
    /\ steps = <<"parse">>

-----------------------------------------------------------------------------
(* Properties of the deployment pipeline *)

\* The collaborator call of this step has come back with this outcome
Came(step, outcome) ==
    \E i \in DOMAIN outcomes : outcomes[i] = [step |-> step, outcome |-> outcome]

HasResolved(step) == \E i \in DOMAIN outcomes : outcomes[i].step = step

\* C11: a failure of either generator never fails the pipeline: when the
\* content-generation call failed the metadata carries the templated
\* description; when generateTokenImage did not produce its image the
\* metadata carries the default image URL and a null animated URL; and in
\* both cases deployToken is entered (create_token is submitted, or the
\* failure is one reported by deployToken).
C11_GeneratorFallbacks ==
    /\ Came("metadata", "failed") =>
            tokenMetadata[1].shortDescription = "template"
    /\ (Came("imagery", "fallback") \/ Came("imagery", "null")) =>
            /\ tokenMetadata[1].imageUrl = "default"
            /\ tokenMetadata[1].animatedUrl = "null"
    /\ HasResolved("imagery") =>
            \/ "create_token" \in {steps[i] : i \in DOMAIN steps}
            \/ result = Failure("Deployment failed")

\* C12: a result with success = true implies that each of the five
\* orchestration steps (create_token, anti_bot, fee_config, liquidity, lock)
\* succeeded; equivalently, a failed step makes the result a failure.
C12_StepFailureFailsDeployment ==
    (result # <<>> /\ result[1].success) =>
        \A k \in DOMAIN OrchestrationSteps : Came(OrchestrationSteps[k], "ok")

\* C13: setupAntiBot and setupFeeDistribution are called only after the
\* create_token transaction has returned and a token id was extracted from
\* its TokenCreated event; when the transaction is rejected or no token id
\* is extracted, neither is called and the result is a failure.
C13_CreationPrecedesSetup ==
    /\ \A i \in DOMAIN steps :
          steps[i] \in {"anti_bot", "fee_config"} =>
              /\ \E j \in 1..(i - 1) : steps[j] = "create_token"
              /\ Came("create_token", "ok")
              /\ tokenId \notin {"none", "null", "undefined"}
    /\ (\/ Came("create_token", "rejected")
        \/ (Came("create_token", "ok") /\ tokenId \in {"null", "undefined"})) =>
          /\ \A i \in DOMAIN steps : steps[i] \notin {"anti_bot", "fee_config"}
          /\ dpc = "returned"
          /\ result = Failure("Deployment failed")

\* C13 witness: create_token was executed, its TokenCreated event carried no
\* token_id, and deployToken failed without calling either setup.
C13_Witness ==
    /\ dpc = "returned"
    /\ Came("create_token", "ok")
    /\ tokenId = "undefined"
    /\ steps = <<"parse", "metadata", "imagery", "create_token">>
    /\ result = Failure("Deployment failed")

\* C14: lockLiquidity is called only if provideLiquidity has completed
\* successfully.
C14_LiquidityPrecedesLock ==
    (\E i \in DOMAIN steps : steps[i] = "lock") => Came("liquidity", "ok")

\* C15: within one invocation every collaborator is called at most once and
\* no call other than the forward steps, in their order, is ever made: the
\* calls made so far are a prefix of the fixed step order, whatever failed.
C15_NoRetryNoRollback ==
    /\ Len(steps) <= Len(StepOrder)
    /\ \A i \in DOMAIN steps : steps[i] = StepOrder[i]

\* C15 witness: the invocation has returned after anti-bot setup and
\* liquidity locking failed, having made each call exactly once.
C15_Witness ==
    /\ dpc = "returned"
    /\ Came("anti_bot", "failed")
    /\ Came("lock", "failed")
    /\ steps = StepOrder
    /\ Len(outcomes) = Len(StepOrder)

-----------------------------------------------------------------------------
(* Properties of the replies *)

\* C16: for every processTokenDeployment call made by the Twitter, Farcaster
\* or Telegram handler that has returned, the handler has made a reply on
\* its channel, and when the result is a failure that reply is the one
\* quoting the result's reason.
C16_EveryOutcomeReported ==
    (lastReply # <<>> /\ lastReply[1].source \in Listeners) =>
        /\ lastReply[1].reply # "none"
        /\ ~lastReply[1].success => lastReply[1].reply = "failure"

-----------------------------------------------------------------------------
(* Properties of the anti-bot protection *)

\* The last transaction was a check_can_buy call
IsCheck == lastTx # <<>> /\ lastTx[1].fn = "check_can_buy"

\* C17: once trading_enabled is true it is true in every later state,
\* whatever transaction comes next.
C17_MonotonicActivation ==
    [][(protection # <<>> /\ protection[1].trading_enabled) =>
            protection'[1].trading_enabled]_vars

\* C17 witness: trading was enabled before the last transaction, that
\* transaction was a check that aborted, and trading is still enabled.
C17_Witness ==
    /\ IsCheck
    /\ lastTx[1].enabledBefore
    /\ lastTx[1].outcome = "abort"
    /\ protection[1].trading_enabled

\* C18 (as claimed): a check_can_buy made before enable_time by a buyer who
\* is not whitelisted never passes, after any sequence of operations.
C18_NoTradingBeforeEnableTime ==
    (/\ IsCheck
     /\ lastTx[1].time < protection[1].enable_time
     /\ ~lastTx[1].whitelisted)
        => lastTx[1].outcome # "true"

\* C18: a check_can_buy made before enable_time by a buyer who is not
\* whitelisted never passes unless the owner has executed enable_trading;
\* and before enable_time trading is enabled only by enable_trading.
C18_NoTradingBeforeEnableTimeUnlessEnabled ==
    /\ (/\ IsCheck
        /\ lastTx[1].time < protection[1].enable_time
        /\ ~lastTx[1].whitelisted
        /\ ~enabledManually)
          => lastTx[1].outcome # "true"
    /\ (/\ protection # <<>>
        /\ protection[1].trading_enabled
        /\ Seconds(chainTime) < protection[1].enable_time)
          => enabledManually

\* C18 witness: a buyer who is neither whitelisted nor blacklisted was
\* refused before enable_time because trading was not enabled.
C18_Witness ==
    /\ IsCheck
    /\ lastTx[1].time < protection[1].enable_time
    /\ ~lastTx[1].whitelisted
    /\ ~lastTx[1].blacklisted
    /\ ~enabledManually
    /\ lastTx[1].outcome = "abort"
    /\ lastTx[1].code = "ETradingNotEnabled"

\* C19: after a check_can_buy made at or after enable_time by a buyer who
\* is neither whitelisted nor blacklisted, trading_enabled is true, whether
\* or not the call passed the max-buy and cooldown checks.
C19_LazyActivationPersists ==
    (/\ IsCheck
     /\ lastTx[1].time >= protection[1].enable_time
     /\ ~lastTx[1].whitelisted
     /\ ~lastTx[1].blacklisted)
        => protection[1].trading_enabled

\* C20: check_can_buy returns true for every buyer on the whitelist,
\* whatever the blacklist, trading_enabled, enable_time, the amount and the
\* buyer's last buy.
C20_WhitelistedAlwaysPass ==
    (IsCheck /\ lastTx[1].whitelisted) => lastTx[1].outcome = "true"

\* C20 witness: a whitelisted buyer who is also blacklisted passed before
\* enable_time, with trading disabled and an amount above the cap.
C20_Witness ==
    /\ IsCheck
    /\ lastTx[1].whitelisted
    /\ lastTx[1].blacklisted
    /\ ~lastTx[1].enabledBefore
    /\ lastTx[1].time < protection[1].enable_time
    /\ lastTx[1].amount >
         (lastTx[1].total_supply * protection[1].max_buy_percent) \div BasisPoints
    /\ lastTx[1].outcome = "true"


\* The last transaction was a check_can_buy of a buyer who was neither on the
\* whitelist nor on the blacklist when it was made
IsOpenCheck == IsCheck /\ ~lastTx[1].whitelisted /\ ~lastTx[1].blacklisted

\* C21 (as claimed): for every address on the blacklist, check_can_buy for
\* that address never passes.
C21_BlacklistedNeverPass ==
    (IsCheck /\ lastTx[1].blacklisted) => lastTx[1].outcome # "true"

\* C21 (amended): for every address on the blacklist that is not on the
\* whitelist as well, check_can_buy returns false, whatever the amount, the
\* time and the state of trading; the whitelist test comes first, so an
\* address on both lists passes.
C21_BlacklistedUnlessWhitelisted ==
    (IsCheck /\ lastTx[1].blacklisted /\ ~lastTx[1].whitelisted) =>
        lastTx[1].outcome = "false"

\* C21 witness: a blacklisted buyer who is not whitelisted has been refused
\* while trading was enabled and the amount was within the cap.
C21_Witness ==
    /\ IsCheck
    /\ lastTx[1].blacklisted
    /\ ~lastTx[1].whitelisted
    /\ lastTx[1].outcome = "false"
    /\ protection[1].trading_enabled
    /\ ~Overflows(lastTx[1].total_supply * protection[1].max_buy_percent)
    /\ lastTx[1].amount * BasisPoints
          <= lastTx[1].total_supply * protection[1].max_buy_percent

\* The cap of the last transaction: floor(total_supply * max_buy_percent / 10000)
\* with the max_buy_percent of the object, which a check_can_buy leaves as
\* it found it
CapOfLastTx ==
    (lastTx[1].total_supply * protection[1].max_buy_percent) \div BasisPoints

\* C22: for every buyer who is not whitelisted, check_can_buy passes only if
\* amount <= floor(total_supply * max_buy_percent / 10000), with the
\* max_buy_percent in force at the call; and an amount equal to the cap is
\* not rejected by the cap check.
C22_MaxBuyCap ==
    (IsCheck /\ ~lastTx[1].whitelisted) =>
        /\ lastTx[1].outcome = "true" => lastTx[1].amount <= CapOfLastTx
        /\ lastTx[1].amount = CapOfLastTx => lastTx[1].code # "EExceedsMaxBuyLimit"

\* C22 witness: a buyer who is not whitelisted has passed with an amount equal
\* to the cap, the cap being a quotient that was rounded down.
C22_Witness ==
    /\ IsOpenCheck
    /\ lastTx[1].outcome = "true"
    /\ lastTx[1].amount = CapOfLastTx
    /\ (lastTx[1].total_supply * protection[1].max_buy_percent) % BasisPoints # 0

\* The step is a check_can_buy of buyer b at time t, b being neither on the
\* whitelist nor on the blacklist and having a record of an earlier pass,
\* with trading enabled and the amount within the cap
IsNextCheck(b, t) ==
    /\ lastTx' # <<>>
    /\ lastTx'[1].n = TxCount + 1
    /\ lastTx'[1].fn = "check_can_buy"
    /\ lastTx'[1].sender = b
    /\ lastTx'[1].time = t
    /\ ~lastTx'[1].whitelisted
    /\ ~lastTx'[1].blacklisted
    /\ b \in DOMAIN protection[1].buy_tracking
    /\ protection[1].trading_enabled \/ t >= protection[1].enable_time
    /\ ~Overflows(lastTx'[1].total_supply * protection[1].max_buy_percent)
    /\ lastTx'[1].amount * BasisPoints
          <= lastTx'[1].total_supply * protection[1].max_buy_percent
    /\ ~Overflows(protection[1].buy_tracking[b].total_bought + lastTx'[1].amount)

\* C23: after a pass of a non-whitelisted buyer at time t0, the buyer's next
\* check (trading enabled, amount within the cap) fails with
\* EInsufficientCooldown at every time before t0 + cooldown_period, so at
\* t0 + cooldown_period - 1, and passes from t0 + cooldown_period on.
C23_CooldownEnforcement ==
    [][\A b \in Addresses, t \in {Seconds(chainTime')} :
          IsNextCheck(b, t) =>
            LET t0 == protection[1].buy_tracking[b].last_buy_time IN
            IF t < t0 + protection[1].cooldown_period
            THEN /\ lastTx'[1].outcome = "abort"
                 /\ lastTx'[1].code = "EInsufficientCooldown"
                 /\ protection' = protection
            ELSE /\ lastTx'[1].outcome = "true"
                 /\ protection'[1].buy_tracking[b].last_buy_time = t
      ]_vars

\* C23 witness: a buyer's check made cooldown_period - 1 seconds after the
\* buyer's last pass has been rejected for the cooldown.
C23_Witness ==
    /\ IsOpenCheck
    /\ lastTx[1].code = "EInsufficientCooldown"
    /\ lastTx[1].time = protection[1].buy_tracking[lastTx[1].sender].last_buy_time
                            + protection[1].cooldown_period - 1

\* The buyer's BuyInfo, a buyer without one counting as having bought nothing
BuyInfoOf(p, buyer) ==
    IF buyer \in DOMAIN p.buy_tracking
    THEN p.buy_tracking[buyer]
    ELSE [total_bought |-> 0, last_buy_time |-> 0]

\* C24 (as claimed): in every reachable state, for every buyer who is not
\* whitelisted, total_bought equals the sum of the amounts of that buyer's
\* passing checks and last_buy_time the time of the latest passing check.
C24_BuyTrackingExact ==
    protection # <<>> =>
        \A b \in Addresses :
            ~(\E i \in DOMAIN protection[1].whitelist : protection[1].whitelist[i] = b) =>
                /\ BuyInfoOf(protection[1], b).total_bought = buyHistory[b].sum
                /\ BuyInfoOf(protection[1], b).last_buy_time = buyHistory[b].latest

\* C24 (amended): in every reachable state, for every buyer, total_bought
\* equals the sum of the amounts of the buyer's checks that passed while the
\* buyer was not whitelisted, and last_buy_time the time of the latest of
\* them; a check that fails, and a check that passes on the whitelist test,
\* leaves every tracking record unchanged.
C24_BuyTrackingOfUnlistedPasses ==
    /\ [](protection # <<>> =>
            \A b \in Addresses :
                /\ BuyInfoOf(protection[1], b).total_bought = buyHistory[b].trackedSum
                /\ BuyInfoOf(protection[1], b).last_buy_time = buyHistory[b].trackedLatest
                /\ buyHistory[b].trackedSum = 0 <=> b \notin DOMAIN protection[1].buy_tracking)
    /\ [][(/\ protection # <<>>
           /\ lastTx' # <<>>
           /\ lastTx'[1].n = TxCount + 1
           /\ lastTx'[1].fn = "check_can_buy"
           /\ lastTx'[1].outcome # "true" \/ lastTx'[1].whitelisted)
            => protection'[1].buy_tracking = protection[1].buy_tracking]_vars

\* C24 witness: a buyer who is not whitelisted has passed for the second
\* time, and the record holds the sum of the two amounts and the time of
\* the second.
C24_Witness ==
    /\ IsOpenCheck
    /\ lastTx[1].outcome = "true"
    /\ protection[1].buy_tracking[lastTx[1].sender].total_bought > lastTx[1].amount
    /\ protection[1].buy_tracking[lastTx[1].sender].total_bought
          = buyHistory[lastTx[1].sender].trackedSum
    /\ protection[1].buy_tracking[lastTx[1].sender].last_buy_time = lastTx[1].time

\* The functions of anti_bot that assert the caller is the owner
OwnerOnlyFunctions ==
    {"add_to_whitelist", "remove_from_whitelist", "add_to_blacklist",
     "remove_from_blacklist", "enable_trading", "update_max_buy_percent",
     "update_cooldown_period"}

\* The step is a transaction calling fn
IsCallOf(fn) ==
    /\ protection # <<>>
    /\ lastTx' # <<>>
    /\ lastTx'[1].n = TxCount + 1
    /\ lastTx'[1].fn = fn

\* C25: a call of add_to_whitelist, remove_from_whitelist, add_to_blacklist,
\* remove_from_blacklist, enable_trading, update_max_buy_percent or
\* update_cooldown_period by an address that is not the protection's owner
\* aborts and leaves the TokenProtection unchanged; so these functions
\* change it only when the owner calls.
C25_OwnerOnlyMutation ==
    [][\A fn \in OwnerOnlyFunctions :
          IsCallOf(fn) =>
            /\ lastTx'[1].sender # protection[1].owner =>
                  /\ lastTx'[1].outcome = "abort"
                  /\ lastTx'[1].code = "0"
                  /\ protection' = protection
            /\ protection' # protection => lastTx'[1].sender = protection[1].owner
      ]_vars

\* C25 witness: an address that is not the owner has tried to blacklist an
\* address that was not blacklisted, after the owner had changed the
\* object, and was rejected.
C25_Witness ==
    /\ lastTx # <<>>
    /\ lastTx[1].fn = "add_to_blacklist"
    /\ lastTx[1].sender # protection[1].owner
    /\ ~lastTx[1].blacklisted
    /\ lastTx[1].outcome = "abort"
    /\ lastTx[1].address \notin protection[1].blacklist
    /\ protection[1].max_buy_percent # DeployedMaxBuyPercent

\* The step is a list update that finds the address where it must not be:
\* an addition of an address on the list, a removal of one that is not
IsRedundantUpdate ==
    \/ IsCallOf("add_to_whitelist") /\ lastTx'[1].whitelisted
    \/ IsCallOf("remove_from_whitelist") /\ ~lastTx'[1].whitelisted
    \/ IsCallOf("add_to_blacklist") /\ lastTx'[1].blacklisted
    \/ IsCallOf("remove_from_blacklist") /\ ~lastTx'[1].blacklisted

\* C26: adding an address that is already on the whitelist or the blacklist,
\* and removing an address that is not on it, aborts and leaves the lists
\* unchanged; and no address appears twice in the whitelist.
C26_FailLoudListUpdates ==
    /\ [](protection # <<>> =>
            \A i, j \in DOMAIN protection[1].whitelist :
                protection[1].whitelist[i] = protection[1].whitelist[j] => i = j)
    /\ [][IsRedundantUpdate =>
            /\ lastTx'[1].outcome = "abort"
            /\ protection' = protection]_vars

\* C26 witness: the owner has added to the whitelist an address that was on
\* it, next to the owner's own entry, and the call was rejected for that.
C26_Witness ==
    /\ lastTx # <<>>
    /\ lastTx[1].fn = "add_to_whitelist"
    /\ lastTx[1].sender = protection[1].owner
    /\ lastTx[1].address # protection[1].owner
    /\ lastTx[1].whitelisted
    /\ lastTx[1].code = "EAddressAlreadyWhitelisted"
    /\ Len(protection[1].whitelist) = 2

\* C27 (as claimed): in every reachable state there is at most one
\* TokenProtection for the token_id; create_protection cannot produce a second
\* protection object for a token_id that already has one.
C27_OneProtectionPerToken == created <= 1

-----------------------------------------------------------------------------
(* Properties of the liquidity locker *)

\* The step is a transaction on the locker calling fn
IsLockCallOf(fn) ==
    /\ lastLockTx' # <<>>
    /\ lastLockTx'[1].n = LockTxCount + 1
    /\ lastLockTx'[1].fn = fn

\* The step leaves the escrow as it was: the locks, the floor and the coins
EscrowUnchanged == locker' = locker /\ transfers' = transfers

\* A lock_liquidity with lock_duration below the min_lock_duration in force
\* is rejected and leaves the escrow unchanged
ShortLockRejected ==
    [][(IsLockCallOf("lock_liquidity")
            /\ lastLockTx'[1].lock_duration < locker.min_lock_duration)
        => /\ lastLockTx'[1].outcome = "abort"
           /\ lastLockTx'[1].code = "EInvalidLockDuration"
           /\ EscrowUnchanged]_vars

\* C28 (as claimed): lock_liquidity with lock_duration < min_lock_duration is
\* rejected and leaves the escrow unchanged; every lock stored in the escrow
\* has unlock_time = creation time + lock_duration with lock_duration at least
\* the 30-day platform floor.
C28_LockDurationFloor ==
    /\ ShortLockRejected
    /\ [](\A id \in DOMAIN locker.locks :
            /\ locker.locks[id].unlock_time
                  = lockLog[id].created + lockLog[id].lock_duration
            /\ lockLog[id].lock_duration >= DefaultMinLockDuration)

\* C28 (amended): lock_liquidity with lock_duration < min_lock_duration is
\* rejected and leaves the escrow unchanged; every lock stored in the escrow
\* has unlock_time = creation time + lock_duration with lock_duration at least
\* the min_lock_duration that was in force when it was made.
C28_LockDurationAtLeastMinimum ==
    /\ ShortLockRejected
    /\ [](\A id \in DOMAIN locker.locks :
            /\ locker.locks[id].unlock_time
                  = lockLog[id].created + lockLog[id].lock_duration
            /\ lockLog[id].lock_duration >= lockLog[id].min_lock_duration)

\* C28 witness: a lock_liquidity with a duration below the minimum has been
\* rejected while the escrow holds a lock of less than 30 days, made when the
\* admin had lowered the minimum.
C28_Witness ==
    /\ lastLockTx # <<>>
    /\ lastLockTx[1].fn = "lock_liquidity"
    /\ lastLockTx[1].code = "EInvalidLockDuration"
    /\ lastLockTx[1].lock_duration < locker.min_lock_duration
    /\ \E id \in DOMAIN locker.locks :
          /\ lockLog[id].lock_duration < DefaultMinLockDuration
          /\ locker.locks[id].unlock_time
                = lockLog[id].created + lockLog[id].lock_duration

\* The lock has left the escrow in this step
Released(id) == id \in DOMAIN locker.locks /\ id \notin DOMAIN locker'.locks

\* C29: over every sequence of lock, unlock and admin operations, a lock
\* leaves the escrow only in an unlock_liquidity called by the address that
\* made the lock, at a time now >= the lock's unlock_time, and its balance is
\* then transferred, whole, to that address and to nobody else; a lock that
\* stays in the escrow keeps its unlock_time, its balance and its locker.
C29_EscrowReleaseSafety ==
    /\ [][\A id \in DOMAIN locker.locks :
            /\ Released(id) =>
                /\ IsLockCallOf("unlock_liquidity")
                /\ lastLockTx'[1].lock_id = id
                /\ lastLockTx'[1].sender = locker.locks[id].locker
                /\ lastLockTx'[1].time >= locker.locks[id].unlock_time
                /\ transfers' = transfers \cup
                      {[lock_id |-> id,
                        to |-> locker.locks[id].locker,
                        value |-> locker.locks[id].token_balance,
                        sender |-> locker.locks[id].locker,
                        time |-> lastLockTx'[1].time]}
            /\ ~Released(id) =>
                /\ locker'.locks[id] = locker.locks[id]
                /\ \A x \in transfers' : x.lock_id # id
         ]_vars
    /\ [][transfers' # transfers => \E id \in DOMAIN locker.locks : Released(id)]_vars
    /\ [](\A x \in transfers :
            /\ x.to = lockLog[x.lock_id].stored.locker
            /\ x.sender = x.to
            /\ x.value = lockLog[x.lock_id].stored.token_balance
            /\ x.time >= lockLog[x.lock_id].stored.unlock_time)

\* C29 witness: the maker of one lock has unlocked it once it had matured and
\* has then tried to unlock the lock of another address, which is still in
\* the escrow with the unlock_time it was stored with.
C29_Witness ==
    /\ lastLockTx # <<>>
    /\ lastLockTx[1].fn = "unlock_liquidity"
    /\ lastLockTx[1].code = "EInvalidLock"
    /\ lastLockTx[1].lock_id \in DOMAIN locker.locks
    /\ locker.locks[lastLockTx[1].lock_id] = lockLog[lastLockTx[1].lock_id].stored
    /\ lastLockTx[1].time >= locker.locks[lastLockTx[1].lock_id].unlock_time
    /\ \E x \in transfers : x.to = lastLockTx[1].sender

\* The step is an unlock_liquidity of a lock in the escrow, called at time t
\* by the address that made the lock
IsUnlockByDepositor(id, t) ==
    /\ IsLockCallOf("unlock_liquidity")
    /\ id \in DOMAIN locker.locks
    /\ lastLockTx'[1].lock_id = id
    /\ lastLockTx'[1].sender = locker.locks[id].locker
    /\ lastLockTx'[1].time = t

\* C30: for a lock of amount A, unlock_liquidity by the depositor fails with
\* ELockStillActive at every time before unlock_time, so at unlock_time - 1,
\* leaving the escrow unchanged, and from unlock_time on it succeeds, removes
\* the lock and transfers exactly A to the depositor in one transfer.
C30_LockMaturityBoundary ==
    [][\A id \in DOMAIN locker.locks, t \in {Seconds(chainTime')} :
          IsUnlockByDepositor(id, t) =>
            IF t < locker.locks[id].unlock_time
            THEN /\ lastLockTx'[1].outcome = "abort"
                 /\ lastLockTx'[1].code = "ELockStillActive"
                 /\ EscrowUnchanged
            ELSE /\ lastLockTx'[1].outcome = "ok"
                 /\ id \notin DOMAIN locker'.locks
                 /\ \E x \in transfers' \ transfers :
                      /\ transfers' = transfers \cup {x}
                      /\ x.to = locker.locks[id].locker
                      /\ x.value = lockLog[id].stored.token_balance
      ]_vars

\* C30 witness: the depositor has unlocked a lock at now = unlock_time and
\* holds its whole amount, while another lock is still in the escrow.
C30_Witness ==
    /\ lastLockTx # <<>>
    /\ lastLockTx[1].fn = "unlock_liquidity"
    /\ lastLockTx[1].outcome = "ok"
    /\ lastLockTx[1].time = lockLog[lastLockTx[1].lock_id].stored.unlock_time
    /\ \E x \in transfers :
          /\ x.lock_id = lastLockTx[1].lock_id
          /\ x.to = lockLog[x.lock_id].stored.locker
          /\ x.value = lockLog[x.lock_id].stored.token_balance
    /\ DOMAIN locker.locks # {}

\* The locks that a successful unlock_liquidity has paid out
UnlockedIds == {x.lock_id : x \in transfers}

\* C31: for every lock_id at most one unlock_liquidity call ever succeeds;
\* after the successful unlock the lock record is no longer in the table and
\* every later unlock_liquidity or get_lock_info for that lock_id aborts with
\* ELockNotFound.
C31_UnlockAtMostOnce ==
    /\ [](UnlockedIds \cap DOMAIN locker.locks = {})
    /\ [][(IsLockCallOf("unlock_liquidity") /\ lastLockTx'[1].outcome = "ok")
            => /\ lastLockTx'[1].lock_id \notin UnlockedIds
               /\ lastLockTx'[1].lock_id \in DOMAIN locker.locks
               /\ lastLockTx'[1].lock_id \notin DOMAIN locker'.locks]_vars
    /\ [][((IsLockCallOf("unlock_liquidity") \/ IsLockCallOf("get_lock_info"))
              /\ lastLockTx'[1].lock_id \in UnlockedIds)
            => /\ lastLockTx'[1].outcome = "abort"
               /\ lastLockTx'[1].code = "ELockNotFound"]_vars

\* C31 witness: the depositor of a lock that was paid out has called
\* unlock_liquidity for it once more, the lock time long over, and the call
\* found no lock.
C31_Witness ==
    /\ lastLockTx # <<>>
    /\ lastLockTx[1].fn = "unlock_liquidity"
    /\ lastLockTx[1].code = "ELockNotFound"
    /\ \E x \in transfers :
          /\ x.lock_id = lastLockTx[1].lock_id
          /\ x.to = lastLockTx[1].sender
          /\ x.time <= lastLockTx[1].time

\* The sum of f over the finite set S
RECURSIVE SumOver(_, _)
SumOver(S, f) ==
    IF S = {} THEN 0
    ELSE LET x == CHOOSE y \in S : TRUE IN f[x] + SumOver(S \ {x}, [y \in S \ {x} |-> f[y]])

\* The value of the coins handed to lock_liquidity calls that stored a lock
TotalDeposited == SumOver(DOMAIN lockLog, [id \in DOMAIN lockLog |-> lockLog[id].amount])

\* The value of the coins unlock_liquidity has transferred out
TotalReleased == SumOver(transfers, [x \in transfers |-> x.value])

\* The sum of the balances of the lock records in the table
TotalLocked ==
    SumOver(DOMAIN locker.locks,
            [id \in DOMAIN locker.locks |-> locker.locks[id].token_balance])

\* C32: in every reachable state the value held by the LiquidityLocker, which
\* is what was deposited into it minus what it has released, equals the sum of
\* the balances of the lock records currently in its table.
C32_EscrowConservation ==
    /\ TotalLocked = TotalDeposited - TotalReleased
    /\ \A id \in DOMAIN locker.locks : locker.locks[id].token_balance = lockLog[id].amount

\* C32 witness: two locks of different amounts were made and one of them has
\* been paid out.
C32_Witness ==
    /\ TotalDeposited = 12
    /\ TotalReleased \in {5, 7}
    /\ TotalLocked = TotalDeposited - TotalReleased
    /\ Cardinality(DOMAIN locker.locks) = 1

-----------------------------------------------------------------------------
(* Properties of the fee distributor *)

\* The step is a transaction on the fee objects calling fn
IsFeeCallOf(fn) ==
    /\ lastFeeTx' # <<>>
    /\ lastFeeTx'[1].n = FeeTxCount + 1
    /\ lastFeeTx'[1].fn = fn

\* The config of every token but token_id is as it was before the step
OtherConfigsUnchanged(token_id) ==
    /\ DOMAIN configs' = DOMAIN configs
    /\ \A t \in DOMAIN configs \ {token_id} : configs'[t] = configs[t]

\* C33 (as claimed): for any fee_amount, collect_fees completes and credits
\* protocol_amount = floor(fee_amount * protocol_fee_bps / (protocol_fee_bps +
\* creator_fee_bps)) to the protocol balance and creator_amount = fee_amount -
\* protocol_amount to the balance of the token's creator.
C33_FeeSplitExact ==
    [][IsFeeCallOf("collect_fees") =>
          LET t == lastFeeTx'[1].token_id
              fee_amount == lastFeeTx'[1].fee_amount
              protocol_amount ==
                  (fee_amount * distributor.protocol_fee_bps)
                      \div (distributor.protocol_fee_bps + distributor.creator_fee_bps)
          IN /\ lastFeeTx'[1].outcome = "ok"
             /\ distributor'.protocol_balance
                    = distributor.protocol_balance + protocol_amount
             /\ configs'[t].creator_balance
                    = configs[t].creator_balance + (fee_amount - protocol_amount)
      ]_vars

\* C34: in every reachable state protocol_fee_bps + creator_fee_bps = 1000, so
\* the divisor of collect_fees is never zero; update_fee_distribution with a
\* pair that does not add up to 1000 aborts and leaves both values unchanged.
C34_FeeRatioInvariant ==
    /\ [](distributor.protocol_fee_bps + distributor.creator_fee_bps = TotalFeeBps)
    /\ [][(IsFeeCallOf("update_fee_distribution") /\ lastFeeTx'[1].outcome = "abort")
            => /\ distributor' = distributor
               /\ configs' = configs]_vars
    /\ [][(IsFeeCallOf("update_fee_distribution") /\ lastFeeTx'[1].outcome = "ok")
            => <<distributor'.protocol_fee_bps, distributor'.creator_fee_bps>>
                  \in {s \in FeeShares : s[1] + s[2] = TotalFeeBps}]_vars

\* C34 witness: the admin has changed the split, and an update with a pair
\* that adds up to 900 has then been rejected, the changed split staying.
C34_Witness ==
    /\ lastFeeTx # <<>>
    /\ lastFeeTx[1].fn = "update_fee_distribution"
    /\ lastFeeTx[1].code = "EInvalidFeeShare"
    /\ distributor.protocol_fee_bps # DefaultProtocolFeeBps
    /\ distributor.protocol_fee_bps + distributor.creator_fee_bps = TotalFeeBps

\* C35: a withdrawal from a balance of zero aborts; withdraw_creator_fees by
\* an address that is not the config's creator aborts; a withdrawal that
\* succeeds transfers the whole balance, in one coin, to the config's creator
\* or to the protocol fee recipient, leaves that balance at 0 and changes no
\* other balance.
C35_WithdrawalDrainsFully ==
    /\ [][IsFeeCallOf("withdraw_protocol_fees") =>
            IF distributor.protocol_balance = 0
            THEN /\ lastFeeTx'[1].outcome = "abort"
                 /\ lastFeeTx'[1].code = "EInsufficientBalance"
                 /\ distributor' = distributor /\ configs' = configs
            ELSE /\ lastFeeTx'[1].paid =
                      <<[to |-> distributor.protocol_fee_recipient,
                         value |-> distributor.protocol_balance]>>
                 /\ distributor' = [distributor EXCEPT !.protocol_balance = 0]
                 /\ configs' = configs
         ]_vars
    /\ [][IsFeeCallOf("withdraw_creator_fees") =>
            LET t == lastFeeTx'[1].token_id IN
            IF lastFeeTx'[1].sender # configs[t].creator \/ configs[t].creator_balance = 0
            THEN /\ lastFeeTx'[1].outcome = "abort"
                 /\ lastFeeTx'[1].paid = <<>>
                 /\ distributor' = distributor /\ configs' = configs
            ELSE /\ lastFeeTx'[1].paid =
                      <<[to |-> configs[t].creator,
                         value |-> configs[t].creator_balance]>>
                 /\ configs'[t] = [configs[t] EXCEPT !.creator_balance = 0]
                 /\ OtherConfigsUnchanged(t)
                 /\ distributor' = distributor
         ]_vars

\* C35 witness: a creator has withdrawn the fees of one token while the
\* protocol and the creator of another token hold fees of their own.
C35_Witness ==
    /\ lastFeeTx # <<>>
    /\ lastFeeTx[1].fn = "withdraw_creator_fees"
    /\ lastFeeTx[1].outcome = "ok"
    /\ lastFeeTx[1].paid[1].value > 0
    /\ configs[lastFeeTx[1].token_id].creator_balance = 0
    /\ distributor.protocol_balance > 0
    /\ \E t \in DOMAIN configs : configs[t].creator_balance > 0

-----------------------------------------------------------------------------
(* Termination of processTokenDeployment *)

\* C36 (as claimed): every processTokenDeployment call that was started
\* eventually returns a result, with success true or false, even when a
\* collaborator call never returns.
C36_EveryDeploymentTerminates ==
    (dpc # "idle") ~> (dpc = "returned" /\ result # <<>>)

-----------------------------------------------------------------------------
(* The mentions poll of twitter.js.                                         *)

LargestId(batch) ==
    CHOOSE m \in {batch[i].id : i \in DOMAIN batch} :
        \A i \in DOMAIN batch : batch[i].id <= m

\* C37: whenever the mentions search of a poll returns a non-empty batch,
\* getRecentMentions returns that batch, every tweet of it is passed to
\* processTweet in that poll, and lastTweetId becomes the largest tweet id
\* of the batch.
C37_FetchedMentionsProcessed ==
    \A i \in DOMAIN pollLog :
        (pollLog[i].response.kind = "ok" /\ Len(pollLog[i].response.data) > 0)
            => /\ pollLog[i].mentions = pollLog[i].response.data
               /\ pollLog[i].handed = pollLog[i].response.data
               /\ pollLog[i].lastTweetId = <<LargestId(pollLog[i].response.data)>>

-----------------------------------------------------------------------------
(* The name the normalizer accepts, against token_factory::create_token.    *)

\* token_factory.move line 106: string::length(&name_str) > 0
NameCheckPasses(name) == Len(name) > 0

\* C38: whenever validateTokenParams returns isValid = true, the normalized
\* tokenName is non-empty, so the name check of create_token cannot fail for
\* a request the normalizer accepted.
C38_AcceptedNamesDeployable ==
    (validated # <<>> /\ validated[1].isValid)
        => NameCheckPasses(validated[1].tokenName)

-----------------------------------------------------------------------------
(* The early exits of check_can_buy.                                        *)

\* C39: a check_can_buy call for a whitelisted buyer or for a blacklisted
\* buyer returns at the list test and leaves the whole TokenProtection
\* unchanged: trading_enabled is not flipped even when now >= enable_time,
\* and no buy-tracking record is created or updated.
C39_EarlyExitChangesNothing ==
    [][(/\ IsCallOf("check_can_buy")
        /\ lastTx'[1].whitelisted \/ lastTx'[1].blacklisted)
        => /\ protection' = protection
           /\ lastTx'[1].outcome = IF lastTx'[1].whitelisted THEN "true" ELSE "false"
      ]_vars

\* C39 witness: a blacklisted buyer who is not whitelisted and has no
\* buy-tracking record has been refused at or after enable_time, and
\* trading is still not enabled and the buyer still has no record.
C39_Witness ==
    /\ IsCheck
    /\ lastTx[1].blacklisted
    /\ ~lastTx[1].whitelisted
    /\ lastTx[1].outcome = "false"
    /\ lastTx[1].time >= protection[1].enable_time
    /\ ~lastTx[1].enabledBefore
    /\ ~protection[1].trading_enabled
    /\ lastTx[1].sender \notin DOMAIN protection[1].buy_tracking

-----------------------------------------------------------------------------
(* The rejected unlock.                                                     *)

\* The codes of the two tests unlock_liquidity makes after it has taken the
\* record out of the table
LateUnlockCodes == {"EInvalidLock", "ELockStillActive"}

\* C40: when unlock_liquidity is rejected because the caller is not the
\* depositor or because now < unlock_time, the lock record is in the escrow
\* afterwards with the same balance, depositor and unlock_time, and nothing
\* else of the escrow has changed, although the record is removed from the
\* table before the two tests are made; and a call by another address or
\* before unlock_time is rejected in this way.
C40_RejectedUnlockHasNoEffect ==
    [][\A id \in DOMAIN locker.locks :
          (IsLockCallOf("unlock_liquidity") /\ lastLockTx'[1].lock_id = id) =>
            /\ (\/ lastLockTx'[1].sender # locker.locks[id].locker
                \/ lastLockTx'[1].time < locker.locks[id].unlock_time)
                  <=> lastLockTx'[1].code \in LateUnlockCodes
            /\ lastLockTx'[1].code \in LateUnlockCodes =>
                  /\ lastLockTx'[1].outcome = "abort"
                  /\ id \in DOMAIN locker'.locks
                  /\ locker'.locks[id].token_balance = locker.locks[id].token_balance
                  /\ locker'.locks[id].locker = locker.locks[id].locker
                  /\ locker'.locks[id].unlock_time = locker.locks[id].unlock_time
                  /\ EscrowUnchanged
      ]_vars

\* C40 witness: after at least two earlier transactions an address has been
\* rejected with EInvalidLock before unlock_time, and the lock is still in
\* the escrow as it was stored, with nothing transferred.
C40_Witness ==
    /\ lastLockTx # <<>>
    /\ lastLockTx[1].fn = "unlock_liquidity"
    /\ lastLockTx[1].code = "EInvalidLock"
    /\ lastLockTx[1].lock_id \in DOMAIN locker.locks
    /\ lastLockTx[1].time < locker.locks[lastLockTx[1].lock_id].unlock_time
    /\ lastLockTx[1].n >= 3
    /\ locker.locks[lastLockTx[1].lock_id] = lockLog[lastLockTx[1].lock_id].stored
    /\ transfers = {}

=============================================================================
